---- MODULE Spec2Model ----
(***************************************************************************)
(* A model of six parts of winit's Linux code:                              *)
(*   - the EventHandler slot (winit-common/src/event_handler.rs),          *)
(*   - the redraw-request flag shared between a Subsurface handle and the  *)
(*     event loop (wayland/window/subsurface/mod.rs),                      *)
(*   - the pointer-grab state of SubsurfaceState                           *)
(*     (wayland/window/subsurface/state.rs),                               *)
(*   - the frame-callback, size and transparency state of SubsurfaceState, *)
(*   - the cursor selection and visibility of SubsurfaceState,             *)
(*   - the backend selection of EventLoop::new (platform_impl/linux).      *)
(* Each part has its own specification; the variables of the other parts   *)
(* stay at their initial values.                                           *)
(***************************************************************************)
EXTENDS Integers, Sequences, FiniteSets, TLC

VARIABLES
    \* ---- EventHandler ----
    inner,       \* contents of the RefCell: None or the installed handler
    borrowed,    \* the RefCell's borrow flag (a RefMut is alive)
    stack,       \* active set closures and handle callbacks, innermost last
    unwinding,   \* a panic is propagating
    aborted,     \* std::process::abort() was called
    last,        \* the last call made on the EventHandler and its outcome
    \* ---- WindowRequests and the event loop's wake source ----
    redraw_requested,  \* WindowRequests::redraw_requested (AtomicBool)
    pinged,            \* event_loop_awakener: a ping is pending
    tpc,               \* per thread: where it is in request_redraw
    lpc,               \* where the event loop is in its dispatch round
    reqsSince,         \* request_redraw calls since the loop last took the flag
    roundReqs,         \* request_redraw calls that preceded this round's delivery
    roundDelivered,    \* redraw-needed events delivered in this round
    \* ---- SubsurfaceState: pointer grab ----
    pointer_constraints,  \* SubsurfaceState::pointer_constraints is Some
    user_grab_mode,       \* cursor_grab_mode.user_grab_mode
    current_grab_mode,    \* cursor_grab_mode.current_grab_mode
    pointers,             \* SubsurfaceState::pointers, in Vec order
    live,                 \* pointers whose ThemedPointer is alive
    pdata,                \* per pointer: its WinitPointerData
    calls,                \* calls made on pointers by the last operation
    gres,                 \* the last operation on the state and its result
    \* ---- SubsurfaceState: frame callback, size, transparency ----
    frame_callback_state, \* SubsurfaceState::frame_callback_state
    in_flight,            \* frame requests sent whose callback has not fired
    entered,              \* entries into Requested since the last Received
    reset_in_flight,      \* frame_callback_reset was called while Requested
    size,                 \* SubsurfaceState::size (logical)
    scale_factor,         \* SubsurfaceState::scale_factor, in halves
    transparent,          \* SubsurfaceState::transparent
    opaque_region,        \* the surface's opaque-region hint
    viewport,             \* SubsurfaceState::viewport is Some
    viewport_dest,        \* the viewport's destination, if one was set
    sres,                 \* the last operation on the surface and its result
    \* ---- SubsurfaceState: cursor ----
    cursor_visible,       \* SubsurfaceState::cursor_visible
    selected_cursor,      \* SubsurfaceState::selected_cursor
    serial,               \* per pointer: its latest enter serial
    next_serial,          \* the serial of the next enter event
    pcursor,              \* per pointer: the cursor last requested for it
    ccalls,               \* cursor calls made on pointers by the last operation
    cres,                 \* the last cursor operation and its argument
    \* ---- EventLoop::new: build features, environment, outcome ----
    wayland_platform,     \* cfg(wayland_platform)
    x11_platform,         \* cfg(x11_platform)
    env,                  \* the process environment
    bres,                 \* the last call of EventLoop::new and its outcome
    \* ---- Subsurface handles and the event loop's tables ----
    subsurfaces,          \* ids in the loop's state.subsurfaces table
    window_requests,      \* ids in the loop's state.window_requests table
    closed,               \* per surface id: WindowRequests::closed
    handles,              \* per surface id: where its Subsurface handle is
    notified,             \* ids whose closing notification was delivered
    lres,                 \* the last call of Subsurface::new and its result
    \* ---- Subsurface operations that request a redraw ----
    tcall,                \* per thread: the Subsurface method it called last
    ores,                 \* the last Subsurface method called and its result
    \* Subsurface position (wayland/window/subsurface/state.rs)
    position,             \* SubsurfaceState.position: LogicalPosition<i32>
    subsurface_position,  \* the position last sent with wl_subsurface.set_position
    pres                  \* the last position operation, its argument and result

hvars == <<inner, borrowed, stack, unwinding, aborted, last>>

rvars == <<redraw_requested, pinged, tpc, lpc, reqsSince, roundReqs,
           roundDelivered>>

gvars == <<pointer_constraints, user_grab_mode, current_grab_mode, pointers,
           live, pdata, calls, gres>>

svars == <<frame_callback_state, in_flight, entered, reset_in_flight, size,
           scale_factor, transparent, opaque_region, viewport, viewport_dest,
           sres>>

cvars == <<cursor_visible, selected_cursor, serial, next_serial, pcursor,
           ccalls, cres>>

bvars == <<wayland_platform, x11_platform, env, bres>>

lvars == <<subsurfaces, window_requests, closed, handles, notified, lres>>

ovars == <<tcall, ores>>

pvars == <<position, subsurface_position, pres>>

vars == <<hvars, rvars, gvars, svars, cvars, bvars, lvars, ovars, pvars>>

\* What the actions of each part leave alone.
HandlerOthers == <<rvars, gvars, svars, cvars, bvars, lvars, ovars, pvars>>

RedrawOthers == <<hvars, gvars, svars, cvars, bvars, lvars, ovars, pvars>>

GrabOthers == <<hvars, rvars, svars, cvars, bvars, lvars, ovars, pvars>>

SurfaceOthers == <<hvars, rvars, gvars, cvars, bvars, lvars, ovars, pvars>>

\* The cursor operations share the bound pointers with the grab.
CursorOthers == <<hvars, rvars, svars, bvars, lvars, ovars, pvars,
                  pointer_constraints, user_grab_mode, current_grab_mode,
                  pdata, calls, gres>>

BackendOthers == <<hvars, rvars, gvars, svars, cvars, lvars, ovars, pvars>>

\* The handles share the wake source and the loop's position with the
\* redraw requests.
LifeOthers == <<hvars, gvars, svars, cvars, bvars, ovars, pvars, redraw_requested,
                tpc, reqsSince, roundReqs, roundDelivered>>

\* The Subsurface methods act on the surface state, the grab and the redraw
\* flag.
OpsOthers == <<hvars, cvars, bvars, lvars, pvars>>

\* ------------------------------------------------------------------------
\* Bounds
\* ------------------------------------------------------------------------

\* Largest coordinate of a subsurface position.
MaxCoord == 2

\* Number of distinct application handler objects.
NumHandlers == 3

\* Maximum nesting depth of set closures and handle callbacks.
MaxDepth == 4

\* Number of threads that call request_redraw.
NumThreads == 2

\* Maximum number of request_redraw calls between two delivery steps.
MaxReq == 3

\* Number of pointer devices.
NumPointers == 2

\* Number of distinct cursor positions.
NumPositions == 2

\* Maximum number of frame requests whose callback has not fired.
MaxInFlight == 2

\* Largest width or height passed to request_surface_size.
MaxDim == 3

\* Number of surface ids.
NumSurfaces == 2

\* Number of named icons, and of custom cursor images.
NumCursors == 2

\* Largest serial of a pointer-enter event.
MaxSerial == 4

\* ------------------------------------------------------------------------
\* EventHandler (winit-common/src/event_handler.rs)
\* ------------------------------------------------------------------------

\* RefCell::new(None): no handler installed.
None == 0

Handlers == 1..NumHandlers

SetFrame(h) == [kind |-> "set", h |-> h]

HandleFrame(h) == [kind |-> "handle", h |-> h]

\* drop(handler) in terminate or in ClearOnDrop::drop: the destructor of the
\* application handler h is running; from tells which call dropped it.
DropFrame(h, from) == [kind |-> "drop", h |-> h, from |-> from]

Top == stack[Len(stack)]

Pop == SubSeq(stack, 1, Len(stack) - 1)

\* Handler objects that are alive: the Box is moved into set(), so a handler
\* passed to set() is never one that is installed or whose scope is active.
LiveHandlers == {inner} \cup {stack[i].h : i \in DOMAIN stack}

\* Code of the application or of the event loop is running (no panic is
\* propagating and the process was not aborted).
Running == ~unwinding /\ ~aborted

\* in_use(): try_borrow() fails.
in_use == borrowed

\* ready(): try_borrow() succeeds and the slot holds Some.
ready == ~borrowed /\ inner # None

\* Number of handle callbacks that are executing.
NumCallbacks == Cardinality({i \in DOMAIN stack : stack[i].kind = "handle"})

\* Number of handler destructors that are executing.
NumDrops == Cardinality({i \in DOMAIN stack : stack[i].kind = "drop"})

HInit ==
    /\ inner = None
    /\ borrowed = FALSE
    /\ stack = <<>>
    /\ unwinding = FALSE
    /\ aborted = FALSE
    /\ last = [op |-> "new", res |-> "ok", h |-> None]

\* Subsurface::new has returned: the flag starts true and the loop was pinged.
RInit ==
    /\ redraw_requested = TRUE
    /\ pinged = TRUE
    /\ tpc = [t \in 1..NumThreads |-> "idle"]
    /\ lpc = "wait"
    /\ reqsSince = 0
    /\ roundReqs = 0
    /\ roundDelivered = 0

RIdle == RInit

\* WinitPointerData of a pointer that is neither locked nor confined.
NoData == [confined |-> FALSE, locked |-> FALSE, hint |-> {}]

\* SubsurfaceState::new, with the pointer-constraints global present or not.
GInitWith(constraints) ==
    /\ pointer_constraints = constraints
    /\ user_grab_mode = "None"
    /\ current_grab_mode = "None"
    /\ pointers = <<>>
    /\ live = 1..NumPointers
    /\ pdata = [p \in 1..NumPointers |-> NoData]
    /\ calls = <<>>
    /\ gres = [op |-> "new", mode |-> "None", pos |-> {}, res |-> "Ok",
               before |-> "None"]

GInit == \E constraints \in BOOLEAN : GInitWith(constraints)

GIdle == GInitWith(TRUE)

\* const MIN_WINDOW_SIZE: LogicalSize<u32> = LogicalSize::new(2, 1)
MIN_WINDOW_WIDTH == 2

MIN_WINDOW_HEIGHT == 1

\* attributes.surface_size.unwrap_or(LogicalSize::new(200., 200.))
DEFAULT_SURFACE_SIZE == 200

LogicalSize(w, h) == [w |-> w, h |-> h]

\* SubsurfaceState::new followed by set_transparent(attributes.transparent)
\* with the default attributes, the viewporter being present or not.
SInitWith(has_viewport) ==
    /\ frame_callback_state = "None"
    /\ in_flight = 0
    /\ entered = 0
    /\ reset_in_flight = FALSE
    /\ size = LogicalSize(DEFAULT_SURFACE_SIZE, DEFAULT_SURFACE_SIZE)
    /\ scale_factor = 2
    /\ transparent = FALSE
    /\ opaque_region \in {"full", "none"}
    /\ viewport = has_viewport
    /\ viewport_dest = {}
    /\ sres = [op |-> "new", sent |-> FALSE,
               ret |-> LogicalSize(DEFAULT_SURFACE_SIZE, DEFAULT_SURFACE_SIZE),
               arg |-> {}, warned |-> FALSE]

SInit == \E has_viewport \in BOOLEAN : SInitWith(has_viewport)

SIdle == SInitWith(TRUE) /\ opaque_region = "full"

\* A cursor: a named icon or a custom image; Named 0 is CursorIcon::Default.
Cursor(kind, id) == [kind |-> kind, id |-> id]

\* A pointer for which no cursor was requested yet.
NoCursor == Cursor("Unset", 0)

\* The result record of an operation on the cursor: the cursor or the
\* visibility it was called with, and whether the cursor was visible before.
CursorResult(op, cursor, visible) ==
    [op |-> op, cursor |-> cursor, visible |-> visible,
     before |-> cursor_visible]

\* SubsurfaceState::new: the default icon is selected and visible; no pointer
\* has entered the surface.
CInit ==
    /\ cursor_visible = TRUE
    /\ selected_cursor = Cursor("Named", 0)
    /\ serial = [p \in 1..NumPointers |-> 0]
    /\ next_serial = 1
    /\ pcursor = [p \in 1..NumPointers |-> NoCursor]
    /\ ccalls = <<>>
    /\ cres = [op |-> "new", cursor |-> {}, visible |-> {}, before |-> TRUE]

CIdle == CInit

\* The variables read by EventLoop::new.
EnvNames == {"WAYLAND_DISPLAY", "WAYLAND_SOCKET", "DISPLAY"}

\* The message of a NotSupportedError: the variables it reports as not set
\* and the feature it says to enable.
Message(not_set, feature) == [not_set |-> not_set, feature |-> feature]

\* The outcome of EventLoop::new.
BackendResult(forced, any_thread, main_thread, outcome, backend, msg) ==
    [op |-> "new", forced |-> forced, any_thread |-> any_thread,
     main_thread |-> main_thread, outcome |-> outcome, backend |-> backend,
     msg |-> msg]

\* A build with the given features, an empty environment, and no call of
\* EventLoop::new yet.
BInitWith(wayland, x11) ==
    /\ wayland_platform = wayland
    /\ x11_platform = x11
    /\ env = [n \in EnvNames |-> "unset"]
    /\ bres = [BackendResult("None", FALSE, TRUE, "none", "None",
                             Message({}, "none")) EXCEPT !.op = "start"]

\* compile_error! unless one of the features is enabled.
BInit ==
    \E wayland \in BOOLEAN, x11 \in BOOLEAN :
        (wayland \/ x11) /\ BInitWith(wayland, x11)

BIdle == BInitWith(TRUE, TRUE)

\* The result record of Subsurface::new.
NewResult(s, res) == [op |-> "new", s |-> s, res |-> res]

\* An event loop without subsurfaces.
LInit ==
    /\ subsurfaces = {}
    /\ window_requests = {}
    /\ closed = [s \in 1..NumSurfaces |-> FALSE]
    /\ handles = [s \in 1..NumSurfaces |-> "none"]
    /\ notified = {}
    /\ lres = [op |-> "start", s |-> 0, res |-> "Ok"]

LIdle == LInit

\* No Subsurface method was called.
OInit ==
    /\ tcall = [t \in 1..NumThreads |-> "none"]
    /\ ores = [op |-> "new", t |-> 0, ok |-> TRUE, seq |-> 0]

OIdle == OInit

LogicalPosition(x, y) == [x |-> x, y |-> y]

\* dpi::Position: a logical or a physical position.
Positions2D == [kind : {"Logical", "Physical"}, x : 0..MaxCoord, y : 0..MaxCoord]

\* Position::to_logical(scale_factor) as LogicalPosition<i32>, for
\* non-negative coordinates; the scale factor is in halves.
Position_to_logical(p, scale) ==
    IF p.kind = "Logical"
    THEN LogicalPosition(p.x, p.y)
    ELSE LogicalPosition((4 * p.x + scale) \div (2 * scale),
                         (4 * p.y + scale) \div (2 * scale))

\* The result record of a position operation: the argument and the scale
\* factor of the last set_position, and the value position() returned.
PositionResult(op, arg, scale, ret) ==
    [op |-> op, arg |-> arg, scale |-> scale, ret |-> ret]

\* SubsurfaceState::new: position: initial_position.to_logical(1.); nothing
\* was sent with wl_subsurface.set_position.
PInitWith(initial_position) ==
    /\ position = Position_to_logical(initial_position, 2)
    /\ subsurface_position = {}
    /\ pres = PositionResult("new", {}, 2, {})

PInit == \E initial_position \in Positions2D : PInitWith(initial_position)

\* attributes.position.unwrap_or(LogicalPosition::new(0, 0))
PIdle == PInitWith([kind |-> "Logical", x |-> 0, y |-> 0])

\* A panic raised by one of the calls: nothing but the panic state changes.
Panics(op, h) ==
    /\ unwinding' = TRUE
    /\ last' = [op |-> op, res |-> "panic", h |-> h]
    /\ UNCHANGED <<inner, borrowed, stack, aborted>>

\* A call that only logs an error.
Logs(op) ==
    /\ last' = [op |-> op, res |-> "logged", h |-> None]
    /\ UNCHANGED <<inner, borrowed, stack, unwinding, aborted>>

\* ClearOnDrop::drop, when the set scope at the top of the stack is left by
\* how ("set_return" or "set_unwind"). The RefMut of the match is alive while
\* drop(handler) runs the destructor of the handler.
ClearOnDrop(how) ==
    IF borrowed
    THEN \* Err(_): abort the process
         /\ aborted' = TRUE
         /\ stack' = Pop
         /\ last' = [op |-> how, res |-> "abort", h |-> Top.h]
         /\ UNCHANGED <<inner, borrowed>>
    ELSE IF inner = None
    THEN \* Ok(None): nothing to do
         /\ stack' = Pop
         /\ last' = [op |-> how, res |-> "cleared", h |-> Top.h]
         /\ UNCHANGED <<inner, borrowed, aborted>>
    ELSE \* Ok(data @ Some(_)): data.take(), then drop(handler) under the
         \* borrow
         /\ inner' = None
         /\ borrowed' = TRUE
         /\ stack' = Append(Pop, DropFrame(inner, how))
         /\ last' = [op |-> "clear_on_drop", res |-> "dropping", h |-> inner]
         /\ UNCHANGED aborted

\* Mutant of Set: an installed idle handler is silently replaced.
SetOverwrites(h) ==
    /\ UNCHANGED HandlerOthers
    /\ Running
    /\ h \in Handlers \ LiveHandlers
    /\ IF borrowed
       THEN Panics("set", h)
       ELSE /\ Len(stack) < MaxDepth
            /\ inner' = h
            /\ stack' = Append(stack, SetFrame(h))
            /\ last' = [op |-> "set", res |-> "installed", h |-> h]
            /\ UNCHANGED <<borrowed, unwinding, aborted>>

\* EventHandler::set up to the call of the closure.
Set(h) ==
    /\ UNCHANGED HandlerOthers
    /\ Running
    /\ h \in Handlers \ LiveHandlers
    /\ IF borrowed
       THEN \* Err(_) => unreachable!(..)
            Panics("set", h)
       ELSE IF inner # None
       THEN \* Ok(Some(_)) => unreachable!(..)
            Panics("set", h)
       ELSE \* Ok(data @ None) => *data = Some(handler); the guard is armed
            \* and the closure starts
            /\ Len(stack) < MaxDepth
            /\ inner' = h
            /\ stack' = Append(stack, SetFrame(h))
            /\ last' = [op |-> "set", res |-> "installed", h |-> h]
            /\ UNCHANGED <<borrowed, unwinding, aborted>>

\* The closure of set returns normally: _clear_on_drop is dropped.
SetReturn ==
    /\ UNCHANGED HandlerOthers
    /\ Running
    /\ stack # <<>>
    /\ Top.kind = "set"
    /\ ClearOnDrop("set_return")
    /\ UNCHANGED unwinding

\* Mutant of Handle: the borrow check is missing, the callback is invoked
\* although another one is executing.
HandleReentrant ==
    /\ UNCHANGED HandlerOthers
    /\ Running
    /\ IF inner = None
       THEN Logs("handle")
       ELSE /\ Len(stack) < MaxDepth
            /\ borrowed' = TRUE
            /\ stack' = Append(stack, HandleFrame(inner))
            /\ last' = [op |-> "handle", res |-> "invoked", h |-> inner]
            /\ UNCHANGED <<inner, unwinding, aborted>>

\* Mutant of Handle: an absent handler is a panic instead of a logged error.
HandlePanicsWhenAbsent ==
    /\ UNCHANGED HandlerOthers
    /\ Running
    /\ IF borrowed \/ inner = None
       THEN Panics("handle", None)
       ELSE /\ Len(stack) < MaxDepth
            /\ borrowed' = TRUE
            /\ stack' = Append(stack, HandleFrame(inner))
            /\ last' = [op |-> "handle", res |-> "invoked", h |-> inner]
            /\ UNCHANGED <<inner, unwinding, aborted>>

\* EventHandler::handle up to the call of the callback.
Handle ==
    /\ UNCHANGED HandlerOthers
    /\ Running
    /\ IF borrowed
       THEN \* Err(_) => panic!(..)
            Panics("handle", None)
       ELSE IF inner = None
       THEN \* Ok(None) => tracing::error!(..)
            Logs("handle")
       ELSE \* Ok(Some(user_app)) => callback(user_app), the RefMut is kept
            /\ Len(stack) < MaxDepth
            /\ borrowed' = TRUE
            /\ stack' = Append(stack, HandleFrame(inner))
            /\ last' = [op |-> "handle", res |-> "invoked", h |-> inner]
            /\ UNCHANGED <<inner, unwinding, aborted>>

\* The callback of handle returns normally: the RefMut is dropped.
HandleReturn ==
    /\ UNCHANGED HandlerOthers
    /\ Running
    /\ stack # <<>>
    /\ Top.kind = "handle"
    /\ borrowed' = FALSE
    /\ stack' = Pop
    /\ last' = [op |-> "handle_return", res |-> "ok", h |-> Top.h]
    /\ UNCHANGED <<inner, unwinding, aborted>>

\* Mutant of Terminate: the handler is taken out of the slot whether the
\* slot is borrowed or not.
TerminateUnchecked ==
    /\ UNCHANGED HandlerOthers
    /\ Running
    /\ IF inner = None
       THEN Logs("terminate")
       ELSE /\ Len(stack) < MaxDepth
            /\ inner' = None
            /\ borrowed' = TRUE
            /\ stack' = Append(stack, DropFrame(inner, "terminate"))
            /\ last' = [op |-> "terminate", res |-> "cleared", h |-> inner]
            /\ UNCHANGED <<unwinding, aborted>>

\* EventHandler::terminate up to the call of drop(handler).
Terminate ==
    /\ UNCHANGED HandlerOthers
    /\ Running
    /\ IF borrowed
       THEN \* Err(_) => panic!(..)
            Panics("terminate", None)
       ELSE IF inner = None
       THEN \* Ok(None) => tracing::error!(..)
            Logs("terminate")
       ELSE \* Ok(data @ Some(_)) => data.take(), then drop(handler) under
            \* the borrow
            /\ Len(stack) < MaxDepth
            /\ inner' = None
            /\ borrowed' = TRUE
            /\ stack' = Append(stack, DropFrame(inner, "terminate"))
            /\ last' = [op |-> "terminate", res |-> "cleared", h |-> inner]
            /\ UNCHANGED <<unwinding, aborted>>

\* Mutant of DropReturn: the RefMut outlives the match.
DropReturnKeepsBorrow ==
    /\ UNCHANGED HandlerOthers
    /\ Running
    /\ stack # <<>>
    /\ Top.kind = "drop"
    /\ stack' = Pop
    /\ unwinding' = (Top.from = "set_unwind")
    /\ last' = [op |-> IF Top.from = "terminate" THEN "terminate_return"
                       ELSE Top.from,
                res |-> "cleared", h |-> Top.h]
    /\ UNCHANGED <<inner, borrowed, aborted>>

\* The destructor of the handler returns: the RefMut of the match is
\* dropped; terminate returns, or the set scope is left (and the panic that
\* left it goes on unwinding).
DropReturn ==
    /\ UNCHANGED HandlerOthers
    /\ Running
    /\ stack # <<>>
    /\ Top.kind = "drop"
    /\ borrowed' = FALSE
    /\ stack' = Pop
    /\ unwinding' = (Top.from = "set_unwind")
    /\ last' = [op |-> IF Top.from = "terminate" THEN "terminate_return"
                       ELSE Top.from,
                res |-> "cleared", h |-> Top.h]
    /\ UNCHANGED <<inner, aborted>>

\* The closure passed to set, the callback passed to handle, or the
\* destructor of the handler panics.
AppPanic ==
    /\ UNCHANGED HandlerOthers
    /\ Running
    /\ stack # <<>>
    /\ Panics("app", Top.h)

\* A panic unwinds out of the destructor of the handler: the RefMut is
\* dropped. Out of terminate and out of a set scope that was left normally
\* the panic goes on; a set scope that was left by a panic has a second
\* panic in its cleanup, which aborts the process where it is.
UnwindDrop ==
    IF Top.from = "set_unwind"
    THEN /\ aborted' = TRUE
         /\ last' = [op |-> "double_panic", res |-> "process_abort",
                     h |-> Top.h]
         /\ UNCHANGED <<inner, borrowed, stack, unwinding>>
    ELSE /\ borrowed' = FALSE
         /\ stack' = Pop
         /\ last' = [op |-> IF Top.from = "terminate"
                            THEN "terminate_unwind" ELSE "set_unwind",
                     res |-> "cleared", h |-> Top.h]
         /\ UNCHANGED <<inner, unwinding, aborted>>

\* Mutant of Unwind: the slot is cleared only when the closure returns
\* normally, not when a panic unwinds through set.
UnwindNoClear ==
    /\ UNCHANGED HandlerOthers
    /\ unwinding
    /\ ~aborted
    /\ stack # <<>>
    /\ IF Top.kind = "handle"
       THEN /\ stack' = Pop
            /\ borrowed' = FALSE
            /\ last' = [op |-> "handle_unwind", res |-> "ok", h |-> Top.h]
            /\ UNCHANGED <<inner, unwinding, aborted>>
       ELSE IF Top.kind = "drop"
       THEN UnwindDrop
       ELSE /\ stack' = Pop
            /\ last' = [op |-> "set_unwind", res |-> "cleared", h |-> Top.h]
            /\ UNCHANGED <<inner, borrowed, unwinding, aborted>>

\* Mutant of Unwind: the RefMut taken by handle is leaked when the callback
\* panics.
UnwindKeepsBorrow ==
    /\ UNCHANGED HandlerOthers
    /\ unwinding
    /\ ~aborted
    /\ stack # <<>>
    /\ IF Top.kind = "handle"
       THEN /\ stack' = Pop
            /\ last' = [op |-> "handle_unwind", res |-> "ok", h |-> Top.h]
            /\ UNCHANGED <<inner, borrowed, unwinding, aborted>>
       ELSE IF Top.kind = "drop"
       THEN UnwindDrop
       ELSE /\ ClearOnDrop("set_unwind")
            /\ unwinding' = (borrowed \/ inner = None)

\* A panic unwinds through the innermost active call: through handle the
\* RefMut is dropped, through set _clear_on_drop is dropped (unwinding stops
\* while the destructor of the handler runs).
Unwind ==
    /\ UNCHANGED HandlerOthers
    /\ unwinding
    /\ ~aborted
    /\ stack # <<>>
    /\ IF Top.kind = "handle"
       THEN /\ stack' = Pop
            /\ borrowed' = FALSE
            /\ last' = [op |-> "handle_unwind", res |-> "ok", h |-> Top.h]
            /\ UNCHANGED <<inner, unwinding, aborted>>
       ELSE IF Top.kind = "drop"
       THEN UnwindDrop
       ELSE /\ ClearOnDrop("set_unwind")
            /\ unwinding' = (borrowed \/ inner = None)

\* The code running at the current depth catches the panic (catch_unwind).
Catch ==
    /\ UNCHANGED HandlerOthers
    /\ unwinding
    /\ ~aborted
    /\ unwinding' = FALSE
    /\ last' = [op |-> "catch", res |-> "ok", h |-> None]
    /\ UNCHANGED <<inner, borrowed, stack, aborted>>

HNext ==
    \/ \E h \in Handlers : Set(h)
    \/ SetReturn
    \/ Handle
    \/ HandleReturn
    \/ Terminate
    \/ DropReturn
    \/ AppPanic
    \/ Unwind
    \/ Catch

HandlerInit == HInit /\ RIdle /\ GIdle /\ SIdle /\ CIdle /\ BIdle /\ LIdle /\ OIdle /\ PIdle

HandlerSpec == HandlerInit /\ [][HNext]_vars

\* ---- Claims about the EventHandler ----

\* A step is a call of handle / of set.
HandleCalled == last'.op = "handle"

SetCalled == last'.op = "set"

\* A set scope is left, by return or by unwinding, and the process lives.
SetFinished == last'.op \in {"set_return", "set_unwind"} /\ ~aborted'

\* C1: at most one application callback executes at a time. In every
\* reachable state at most one handle callback is in progress, and a handle
\* call made while the slot is borrowed panics without invoking its
\* callback (no callback is added, the slot and the borrow stay as they are).
C1_OneCallbackAtATime ==
    /\ [](NumCallbacks <= 1)
    /\ [][(HandleCalled /\ borrowed) =>
            /\ last'.res = "panic"
            /\ unwinding'
            /\ stack' = stack
            /\ inner' = inner
            /\ borrowed' = borrowed]_vars

\* C1 witness: a handle call made inside a running callback has panicked.
C1_Witness ==
    /\ last.op = "handle"
    /\ last.res = "panic"
    /\ NumCallbacks = 1
    /\ borrowed

\* C2: set called while the slot is not absent (a handler is installed and
\* idle, or a callback is executing) panics; the new handler is not
\* installed and the handler in the slot is not replaced.
C2_SetWhileSetPanics ==
    [][(SetCalled /\ (inner # None \/ borrowed)) =>
            /\ last'.res = "panic"
            /\ unwinding'
            /\ inner' = inner
            /\ inner' # last'.h
            /\ stack' = stack
            /\ borrowed' = borrowed]_vars

\* C2 witness: set was called with an idle handler installed and panicked,
\* the installed handler being another one than the one passed.
C2_Witness ==
    /\ last.op = "set"
    /\ last.res = "panic"
    /\ inner # None
    /\ inner # last.h
    /\ ~borrowed

\* C3: no installed handler outlives the scope of its set call. When a set
\* scope is left, normally or by a panic, the slot is absent (neither ready
\* nor in use); and at any time the installed handler, and the handler of
\* every executing callback, is one whose set scope is still active.
C3_HandlerScoped ==
    /\ [](/\ inner # None =>
                \E i \in DOMAIN stack : stack[i] = SetFrame(inner)
          /\ \A j \in DOMAIN stack :
                stack[j].kind = "handle" =>
                    \E i \in 1..(j - 1) : stack[i] = SetFrame(stack[j].h))
    /\ [][SetFinished =>
            /\ inner' = None
            /\ ~borrowed'
            /\ ~in_use'
            /\ ~ready']_vars

\* C3 witness: a panic has unwound through a set scope whose handler was
\* still installed, and the slot is absent.
C3_Witness ==
    /\ last.op = "set_unwind"
    /\ last.res = "cleared"
    /\ inner = None
    /\ ~borrowed
    /\ unwinding

\* C4: handle called while the slot is absent does not panic, does not
\* invoke a callback and leaves the slot absent; it only logs an error.
C4_HandleAbsentIsNoop ==
    [][(HandleCalled /\ inner = None /\ ~borrowed) =>
            /\ last'.res = "logged"
            /\ ~unwinding'
            /\ ~aborted'
            /\ stack' = stack
            /\ inner' = None
            /\ ~borrowed']_vars

\* C4 witness: handle was called inside a set scope after terminate and
\* was logged.
C4_Witness ==
    /\ last.op = "handle"
    /\ last.res = "logged"
    /\ stack # <<>>
    /\ inner = None


\* ------------------------------------------------------------------------
\* Redraw requests (wayland/window/subsurface/mod.rs) and the event loop
\* ------------------------------------------------------------------------

Threads == 1..NumThreads

\* Mutant of RequestRedraw: the arguments of compare_exchange are swapped.
RequestRedrawSwapped(t) ==
    /\ UNCHANGED RedrawOthers
    /\ tpc[t] = "idle"
    /\ reqsSince < MaxReq
    /\ reqsSince' = reqsSince + 1
    /\ IF redraw_requested = TRUE
       THEN /\ redraw_requested' = FALSE
            /\ tpc' = [tpc EXCEPT ![t] = "ping"]
       ELSE UNCHANGED <<redraw_requested, tpc>>
    /\ UNCHANGED <<pinged, lpc, roundReqs, roundDelivered>>

\* Mutant of RequestRedraw: the flag is tested and the loop is woken, but the
\* flag is not set.
RequestRedrawNoStore(t) ==
    /\ UNCHANGED RedrawOthers
    /\ tpc[t] = "idle"
    /\ reqsSince < MaxReq
    /\ reqsSince' = reqsSince + 1
    /\ IF redraw_requested = FALSE
       THEN tpc' = [tpc EXCEPT ![t] = "ping"]
       ELSE UNCHANGED tpc
    /\ UNCHANGED <<redraw_requested, pinged, lpc, roundReqs, roundDelivered>>

\* Subsurface::request_redraw, first step: on thread t,
\* redraw_requested.compare_exchange(false, true), an atomic step.
RequestRedraw(t) ==
    /\ UNCHANGED RedrawOthers
    /\ tpc[t] = "idle"
    /\ reqsSince < MaxReq
    /\ reqsSince' = reqsSince + 1
    /\ IF redraw_requested = FALSE
       THEN \* is_ok(): the flag is set, the ping follows
            /\ redraw_requested' = TRUE
            /\ tpc' = [tpc EXCEPT ![t] = "ping"]
       ELSE \* the flag was already true: the call returns
            UNCHANGED <<redraw_requested, tpc>>
    /\ UNCHANGED <<pinged, lpc, roundReqs, roundDelivered>>

\* Mutant of RequestRedrawPing: the call returns without the ping.
RequestRedrawNoPing(t) ==
    /\ UNCHANGED RedrawOthers
    /\ tpc[t] = "ping"
    /\ tpc' = [tpc EXCEPT ![t] = "idle"]
    /\ UNCHANGED <<redraw_requested, pinged, lpc, reqsSince, roundReqs,
                   roundDelivered>>

\* Subsurface::request_redraw, second step: event_loop_awakener.ping().
RequestRedrawPing(t) ==
    /\ UNCHANGED RedrawOthers
    /\ tpc[t] = "ping"
    /\ pinged' = TRUE
    /\ tpc' = [tpc EXCEPT ![t] = "idle"]
    /\ UNCHANGED <<redraw_requested, lpc, reqsSince, roundReqs, roundDelivered>>

\* The loop's wait step returns because the wake source was pinged.
LoopWake ==
    /\ UNCHANGED RedrawOthers
    /\ lpc = "wait"
    /\ pinged
    /\ pinged' = FALSE
    /\ lpc' = "deliver"
    /\ roundReqs' = 0
    /\ roundDelivered' = 0
    /\ UNCHANGED <<redraw_requested, tpc, reqsSince>>

\* The loop's wait step returns for another reason (protocol messages, a
\* timer); a pending ping stays pending.
LoopWakeOther ==
    /\ UNCHANGED RedrawOthers
    /\ lpc = "wait"
    /\ lpc' = "deliver"
    /\ roundReqs' = 0
    /\ roundDelivered' = 0
    /\ UNCHANGED <<redraw_requested, pinged, tpc, reqsSince>>

\* The loop's delivery step for the surface: the flag is cleared by a
\* compare-and-set from true, and a redraw-needed event is delivered when
\* that succeeds.
LoopDeliver ==
    /\ UNCHANGED RedrawOthers
    /\ lpc = "deliver"
    /\ IF redraw_requested = TRUE
       THEN /\ redraw_requested' = FALSE
            /\ roundDelivered' = roundDelivered + 1
       ELSE UNCHANGED <<redraw_requested, roundDelivered>>
    /\ roundReqs' = reqsSince
    /\ reqsSince' = 0
    /\ lpc' = "about_to_wait"
    /\ UNCHANGED <<pinged, tpc>>

\* The round ends with the "about to wait" notification.
LoopAboutToWait ==
    /\ UNCHANGED RedrawOthers
    /\ lpc = "about_to_wait"
    /\ lpc' = "wait"
    /\ UNCHANGED <<redraw_requested, pinged, tpc, reqsSince, roundReqs,
                   roundDelivered>>

RNext ==
    \/ \E t \in Threads : RequestRedraw(t)
    \/ \E t \in Threads : RequestRedrawPing(t)
    \/ LoopWake
    \/ LoopWakeOther
    \/ LoopDeliver
    \/ LoopAboutToWait

RedrawInit == HInit /\ RInit /\ GIdle /\ SIdle /\ CIdle /\ BIdle /\ LIdle /\ OIdle /\ PIdle

RedrawSpec == RedrawInit /\ [][RNext]_vars

\* The scheduler runs a thread that is about to ping, and the loop proceeds
\* through its round and wakes up when the wake source is pinged.
RedrawFairness ==
    /\ \A t \in Threads : WF_vars(RequestRedrawPing(t))
    /\ WF_vars(LoopWake)
    /\ WF_vars(LoopDeliver)
    /\ WF_vars(LoopAboutToWait)

FairRedrawSpec == RedrawSpec /\ RedrawFairness

\* ---- Claims about redraw requests ----

\* C5: redraw coalescing. When the N >= 1 request_redraw calls made since
\* the previous delivery step precede a round's delivery step, that round
\* delivers exactly one redraw-needed event for the surface.
C5_RedrawCoalesced ==
    (lpc = "about_to_wait" /\ roundReqs >= 1) => roundDelivered = 1

\* C5 witness: a round has delivered one event for two or more requests.
C5_Witness ==
    /\ lpc = "about_to_wait"
    /\ roundReqs >= 2
    /\ roundDelivered = 1

\* C6: a request_redraw interleaved with the loop's delivery step is never
\* dropped. While a request made since the loop last took the flag is
\* outstanding the flag is true (also when the request came right after the
\* loop cleared the flag), and under fair scheduling a later round delivers
\* a redraw-needed event for it.
C6_RequestNeverDropped ==
    /\ [](reqsSince >= 1 => redraw_requested)
    /\ (reqsSince >= 1) ~>
            (lpc = "about_to_wait" /\ roundReqs >= 1 /\ roundDelivered = 1)

\* C6 witness: in a round that has already cleared the flag and delivered,
\* a request has set the flag again.
C6_Witness ==
    /\ lpc = "about_to_wait"
    /\ roundDelivered = 1
    /\ reqsSince >= 1
    /\ redraw_requested



\* ------------------------------------------------------------------------
\* SubsurfaceState: pointer grab (wayland/window/subsurface/state.rs)
\* ------------------------------------------------------------------------

Pointers == 1..NumPointers

Positions == 1..NumPositions

\* CursorGrabMode
Modes == {"None", "Confined", "Locked"}

\* The calls that release a constraint, and those that apply one.
ReleaseOps == {"unconfine_pointer", "unlock_pointer"}

ApplyOps == {"confine_pointer", "lock_pointer"}

\* The effect of one call on a pointer's WinitPointerData.
PointerCall(d, c) ==
    CASE c.op = "lock_pointer" -> [d EXCEPT !.locked = TRUE]
      [] c.op = "unlock_pointer" -> [d EXCEPT !.locked = FALSE, !.hint = {}]
      [] c.op = "confine_pointer" -> [d EXCEPT !.confined = TRUE]
      [] c.op = "unconfine_pointer" -> [d EXCEPT !.confined = FALSE]
      [] c.op = "set_locked_cursor_position" ->
            IF d.locked THEN [d EXCEPT !.hint = c.pos] ELSE d
      [] OTHER -> d

\* The pointer data after a sequence of calls, made in order.
RECURSIVE RunCalls(_, _)
RunCalls(pd, cs) ==
    IF cs = <<>>
    THEN pd
    ELSE RunCalls([pd EXCEPT ![Head(cs).p] = PointerCall(@, Head(cs))],
                  Tail(cs))

\* self.pointers.iter().filter_map(Weak::upgrade): the bound pointers that
\* are alive, in Vec order.
LiveBound == SelectSeq(pointers, LAMBDA p : p \in live)

\* apply_on_pointer: the callback's call is made on every live bound pointer.
apply_on_pointer(op, pos) ==
    [i \in 1..Len(LiveBound) |-> [op |-> op, p |-> LiveBound[i], pos |-> pos]]

\* The calls that release the mode old_mode.
ReleaseCalls(old_mode) ==
    CASE old_mode = "None" -> <<>>
      [] old_mode = "Confined" -> apply_on_pointer("unconfine_pointer", {})
      [] old_mode = "Locked" -> apply_on_pointer("unlock_pointer", {})

\* The calls that apply the mode.
ApplyCalls(mode) ==
    CASE mode = "Locked" -> apply_on_pointer("lock_pointer", {})
      [] mode = "Confined" -> apply_on_pointer("confine_pointer", {})
      [] mode = "None" -> <<>>

\* Mutant of set_cursor_grab_inner: the current mode is replaced before the
\* capability is looked up.
set_cursor_grab_inner_replace_first(mode) ==
    IF ~pointer_constraints
    THEN [ok |-> mode = "None", current |-> mode, calls |-> <<>>]
    ELSE [ok |-> TRUE, current |-> mode,
          calls |-> ReleaseCalls(current_grab_mode) \o ApplyCalls(mode)]

\* Mutant of set_cursor_grab_inner: the new mode is applied before the old
\* one is released.
set_cursor_grab_inner_apply_first(mode) ==
    IF ~pointer_constraints
    THEN [ok |-> mode = "None", current |-> current_grab_mode, calls |-> <<>>]
    ELSE [ok |-> TRUE, current |-> mode,
          calls |-> ApplyCalls(mode) \o ReleaseCalls(current_grab_mode)]

\* set_cursor_grab_inner: whether it returns Ok, the new current_grab_mode
\* and the calls it makes on the pointers, in order.
set_cursor_grab_inner(mode) ==
    IF ~pointer_constraints
    THEN \* None if mode == CursorGrabMode::None => Ok(()), None => Err(..)
         [ok |-> mode = "None", current |-> current_grab_mode, calls |-> <<>>]
    ELSE \* mem::replace, then release the old mode, then apply the new one
         [ok |-> TRUE, current |-> mode,
          calls |-> ReleaseCalls(current_grab_mode) \o ApplyCalls(mode)]

\* The result record of an operation.
GrabResult(op, mode, pos, res) ==
    [op |-> op, mode |-> mode, pos |-> pos, res |-> res,
     before |-> user_grab_mode]

\* Mutant of set_cursor_grab: the early return for an unchanged mode is
\* missing.
set_cursor_grab_no_early_return(mode) ==
    /\ UNCHANGED GrabOthers
    /\ LET r == set_cursor_grab_inner(mode) IN
        /\ current_grab_mode' = r.current
        /\ calls' = r.calls
        /\ pdata' = RunCalls(pdata, r.calls)
        /\ user_grab_mode' = IF r.ok THEN mode ELSE user_grab_mode
        /\ gres' = GrabResult("set_cursor_grab", mode, {},
                              IF r.ok THEN "Ok" ELSE "NotSupported")
    /\ UNCHANGED <<pointer_constraints, pointers, live>>

\* Mutant of set_cursor_grab: the user mode is recorded before the inner
\* call, whether it succeeds or not.
set_cursor_grab_user_first(mode) ==
    /\ UNCHANGED GrabOthers
    /\ IF user_grab_mode = mode
       THEN /\ calls' = <<>>
            /\ gres' = GrabResult("set_cursor_grab", mode, {}, "Ok")
            /\ UNCHANGED <<current_grab_mode, user_grab_mode, pdata>>
       ELSE LET r == set_cursor_grab_inner(mode) IN
            /\ current_grab_mode' = r.current
            /\ calls' = r.calls
            /\ pdata' = RunCalls(pdata, r.calls)
            /\ user_grab_mode' = mode
            /\ gres' = GrabResult("set_cursor_grab", mode, {},
                                  IF r.ok THEN "Ok" ELSE "NotSupported")
    /\ UNCHANGED <<pointer_constraints, pointers, live>>

\* SubsurfaceState::set_cursor_grab.
set_cursor_grab(mode) ==
    /\ UNCHANGED GrabOthers
    /\ IF user_grab_mode = mode
       THEN \* return Ok(())
            /\ calls' = <<>>
            /\ gres' = GrabResult("set_cursor_grab", mode, {}, "Ok")
            /\ UNCHANGED <<current_grab_mode, user_grab_mode, pdata>>
       ELSE LET r == set_cursor_grab_inner(mode) IN
            /\ current_grab_mode' = r.current
            /\ calls' = r.calls
            /\ pdata' = RunCalls(pdata, r.calls)
            \* the `?` returns the error; on success the user mode is updated
            /\ user_grab_mode' = IF r.ok THEN mode ELSE user_grab_mode
            /\ gres' = GrabResult("set_cursor_grab", mode, {},
                                  IF r.ok THEN "Ok" ELSE "NotSupported")
    /\ UNCHANGED <<pointer_constraints, pointers, live>>

\* Mutant of set_cursor_position: the check of the grab mode is missing.
set_cursor_position_unchecked(pos) ==
    /\ UNCHANGED GrabOthers
    /\ IF ~pointer_constraints
       THEN /\ calls' = <<>>
            /\ gres' = GrabResult("set_cursor_position", "None", {pos},
                                  "NotSupported")
            /\ UNCHANGED pdata
       ELSE LET cs == apply_on_pointer("set_locked_cursor_position", {pos}) IN
            /\ calls' = cs
            /\ pdata' = RunCalls(pdata, cs)
            /\ gres' = GrabResult("set_cursor_position", "None", {pos}, "Ok")
    /\ UNCHANGED <<pointer_constraints, user_grab_mode, current_grab_mode,
                   pointers, live>>

\* SubsurfaceState::set_cursor_position.
set_cursor_position(pos) ==
    /\ UNCHANGED GrabOthers
    /\ IF ~pointer_constraints \/ current_grab_mode # "Locked"
       THEN \* return Err(NotSupportedError)
            /\ calls' = <<>>
            /\ gres' = GrabResult("set_cursor_position", "None", {pos},
                                  "NotSupported")
            /\ UNCHANGED pdata
       ELSE LET cs == apply_on_pointer("set_locked_cursor_position", {pos}) IN
            /\ calls' = cs
            /\ pdata' = RunCalls(pdata, cs)
            /\ gres' = GrabResult("set_cursor_position", "None", {pos}, "Ok")
    /\ UNCHANGED <<pointer_constraints, user_grab_mode, current_grab_mode,
                   pointers, live>>

\* A pointer enters the surface: a weak reference to it is bound.
PointerEnter(p) ==
    /\ UNCHANGED GrabOthers
    /\ p \in live
    /\ \A i \in DOMAIN pointers : pointers[i] # p
    /\ pointers' = Append(pointers, p)
    /\ calls' = <<>>
    /\ gres' = GrabResult("pointer_enter", "None", {}, "Ok")
    /\ UNCHANGED <<pointer_constraints, user_grab_mode, current_grab_mode,
                   live, pdata>>

\* A pointer device is destroyed: its weak references no longer upgrade and
\* its data, with any lock or confinement, is gone.
PointerDestroyed(p) ==
    /\ UNCHANGED GrabOthers
    /\ p \in live
    /\ live' = live \ {p}
    /\ pdata' = [pdata EXCEPT ![p] = NoData]
    /\ calls' = <<>>
    /\ gres' = GrabResult("pointer_destroyed", "None", {}, "Ok")
    /\ UNCHANGED <<pointer_constraints, user_grab_mode, current_grab_mode,
                   pointers>>

GNext ==
    \/ \E mode \in Modes : set_cursor_grab(mode)
    \/ \E pos \in Positions : set_cursor_position(pos)
    \/ \E p \in Pointers : PointerEnter(p)
    \/ \E p \in Pointers : PointerDestroyed(p)

GrabInit == HInit /\ RIdle /\ GInit /\ SIdle /\ CIdle /\ BIdle /\ LIdle /\ OIdle /\ PIdle

GrabSpec == GrabInit /\ [][GNext]_vars


\* ---- Claims about the pointer grab ----

\* A step is a call of set_cursor_grab / of set_cursor_position.
GrabCalled == gres'.op = "set_cursor_grab"

PositionCalled == gres'.op = "set_cursor_position"

\* The state of the surface and of the pointers, without the records of the
\* last operation.
GrabState == <<pointer_constraints, user_grab_mode, current_grab_mode,
               pointers, live, pdata>>

\* A pointer holds a lock and a confinement at once.
HoldsBoth(d) == d.locked /\ d.confined

\* C7: set_cursor_grab(confined or locked) without the pointer-constraints
\* capability returns NotSupported and leaves the grab released: the internal
\* and the user-visible mode are none afterwards, no lock or confine call is
\* made and no pointer is locked or confined.
C7_GrabUnsupportedLeavesReleased ==
    [][(GrabCalled /\ gres'.mode \in {"Confined", "Locked"}
            /\ ~pointer_constraints) =>
            /\ gres'.res = "NotSupported"
            /\ current_grab_mode' = "None"
            /\ user_grab_mode' = "None"
            /\ \A i \in DOMAIN calls' : calls'[i].op \notin ApplyOps
            /\ \A p \in Pointers : ~pdata'[p].locked /\ ~pdata'[p].confined]_vars

\* C7 witness: a lock was requested without the capability, with a live
\* pointer bound, and was refused.
C7_Witness ==
    /\ ~pointer_constraints
    /\ gres.op = "set_cursor_grab"
    /\ gres.mode = "Locked"
    /\ gres.res = "NotSupported"
    /\ LiveBound # <<>>

\* C8: in a transition between two different modes with the capability
\* available, the release of the previous mode is issued on every live bound
\* pointer, and every release call precedes every lock or confine call; no
\* pointer holds a lock and a confinement at once, at any point of the call
\* sequence or in any reachable state.
C8_ReleaseBeforeApply ==
    /\ [](\A p \in Pointers : ~HoldsBoth(pdata[p]))
    /\ [][(GrabCalled /\ gres'.mode # user_grab_mode /\ pointer_constraints) =>
            /\ \A i, j \in DOMAIN calls' :
                  (calls'[i].op \in ReleaseOps /\ calls'[j].op \in ApplyOps)
                      => i < j
            /\ \A k \in DOMAIN LiveBound :
                  /\ current_grab_mode = "Confined" =>
                        \E i \in DOMAIN calls' :
                            /\ calls'[i].op = "unconfine_pointer"
                            /\ calls'[i].p = LiveBound[k]
                  /\ current_grab_mode = "Locked" =>
                        \E i \in DOMAIN calls' :
                            /\ calls'[i].op = "unlock_pointer"
                            /\ calls'[i].p = LiveBound[k]
                  /\ gres'.mode # "None" =>
                        \E i \in DOMAIN calls' :
                            /\ calls'[i].op \in ApplyOps
                            /\ calls'[i].p = LiveBound[k]
            /\ \A k \in 0..Len(calls') : \A p \in Pointers :
                  ~HoldsBoth(RunCalls(pdata, SubSeq(calls', 1, k))[p])]_vars

\* C8 witness: a transition from confined to locked has unconfined and then
\* locked two live pointers.
C8_Witness ==
    /\ gres.op = "set_cursor_grab"
    /\ gres.before = "Confined"
    /\ gres.mode = "Locked"
    /\ Len(calls) = 4
    /\ \A p \in Pointers : pdata[p].locked

\* C9: set_cursor_grab with the mode equal to the user-visible mode returns
\* Ok, makes no call on any pointer and changes no state.
C9_GrabIdempotent ==
    [][(GrabCalled /\ gres'.mode = user_grab_mode) =>
            /\ gres'.res = "Ok"
            /\ calls' = <<>>
            /\ UNCHANGED GrabState]_vars

\* C9 witness: locked was set a second time while a live pointer is bound
\* and locked.
C9_Witness ==
    /\ gres.op = "set_cursor_grab"
    /\ gres.mode = "Locked"
    /\ gres.before = "Locked"
    /\ gres.res = "Ok"
    /\ \E i \in DOMAIN LiveBound : pdata[LiveBound[i]].locked

\* C10: set_cursor_position fails with NotSupported whenever the grab mode
\* (internal or user-visible) is not locked, and then makes no call on any
\* pointer and changes no state; otherwise it returns Ok and has forwarded the
\* position to every live bound pointer, and to those only.
C10_PositionOnlyWhenLocked ==
    [][PositionCalled =>
            IF current_grab_mode # "Locked" \/ user_grab_mode # "Locked"
            THEN /\ gres'.res = "NotSupported"
                 /\ calls' = <<>>
                 /\ UNCHANGED GrabState
            ELSE /\ gres'.res = "Ok"
                 /\ Len(calls') = Len(LiveBound)
                 /\ \A i \in DOMAIN LiveBound :
                       calls'[i] = [op |-> "set_locked_cursor_position",
                                    p |-> LiveBound[i], pos |-> gres'.pos]
                 /\ \A p \in Pointers :
                       pdata'[p].hint # pdata[p].hint =>
                          /\ pdata[p].locked
                          /\ \E i \in DOMAIN LiveBound : LiveBound[i] = p
                 /\ UNCHANGED <<pointer_constraints, user_grab_mode,
                                current_grab_mode, pointers, live>>]_vars

\* C10 witness: a position was refused while the pointer was confined, with
\* a live pointer bound.
C10_Witness ==
    /\ gres.op = "set_cursor_position"
    /\ gres.res = "NotSupported"
    /\ pointer_constraints
    /\ current_grab_mode = "Confined"
    /\ LiveBound # <<>>

\* ------------------------------------------------------------------------
\* SubsurfaceState: frame callback, size, transparency
\* (wayland/window/subsurface/state.rs)
\* ------------------------------------------------------------------------

\* Widths and heights passed by the application.
Dims == 0..MaxDim

\* Scale factors 1.0, 1.5 and 2.0, in halves.
Scales == {2, 3, 4}

\* dpi::Size: a logical or a physical size.
Sizes == [kind : {"Logical", "Physical"}, w : Dims, h : Dims]

\* n / d rounded half away from zero, for n >= 0 and d > 0 (f64::round).
RoundDiv(n, d) == (2 * n + d) \div (2 * d)

\* Size::to_logical(scale_factor) as LogicalSize<u32>.
to_logical(sz, scale) ==
    IF sz.kind = "Logical"
    THEN LogicalSize(sz.w, sz.h)
    ELSE LogicalSize(RoundDiv(2 * sz.w, scale), RoundDiv(2 * sz.h, scale))

\* Mutant of logical_to_physical_rounded: the product is truncated.
logical_to_physical_truncated(sz, scale) ==
    LogicalSize((sz.w * scale) \div 2, (sz.h * scale) \div 2)

\* logical_to_physical_rounded(size, scale_factor).
logical_to_physical_rounded(sz, scale) ==
    LogicalSize(RoundDiv(sz.w * scale, 2), RoundDiv(sz.h * scale, 2))

\* The result record of an operation on the surface: whether a frame
\* request was sent, the size returned, the flag set_transparent was called
\* with, and whether "Failed to mark window opaque." was logged.
SurfaceResult(op, sent, ret) ==
    [op |-> op, sent |-> sent, ret |-> ret, arg |-> {}, warned |-> FALSE]

\* reload_transparency_hint logs the warning: the surface is not
\* transparent and Region::new fails.
hint_warns(is_transparent, region_ok) == ~is_transparent /\ ~region_ok

\* Mutant of reload_transparency_hint: a failed allocation clears the hint.
reload_transparency_hint_clears(is_transparent, region_ok) ==
    IF is_transparent \/ ~region_ok THEN "none" ELSE "full"

\* reload_transparency_hint: the opaque region after the call, region_ok
\* telling whether Region::new succeeds.
reload_transparency_hint(is_transparent, region_ok) ==
    IF is_transparent
    THEN "none"
    ELSE IF region_ok
    THEN "full"
    ELSE \* warn!("Failed to mark window opaque."): the hint is left as it is
         opaque_region

\* Mutant of request_frame_callback: a frame is requested although one is
\* in flight.
request_frame_callback_always ==
    /\ UNCHANGED SurfaceOthers
    /\ in_flight < MaxInFlight
    /\ frame_callback_state' = "Requested"
    /\ in_flight' = in_flight + 1
    /\ entered' = entered + 1
    /\ sres' = SurfaceResult("request_frame_callback", TRUE, size)
    /\ UNCHANGED <<reset_in_flight, size, scale_factor, transparent,
                   opaque_region, viewport, viewport_dest>>

\* Mutant of request_frame_callback: a received callback is not followed by
\* a new request.
request_frame_callback_only_from_none ==
    /\ UNCHANGED SurfaceOthers
    /\ IF frame_callback_state = "None"
       THEN /\ in_flight < MaxInFlight
            /\ frame_callback_state' = "Requested"
            /\ in_flight' = in_flight + 1
            /\ entered' = entered + 1
            /\ sres' = SurfaceResult("request_frame_callback", TRUE, size)
       ELSE /\ sres' = SurfaceResult("request_frame_callback", FALSE, size)
            /\ UNCHANGED <<frame_callback_state, in_flight, entered>>
    /\ UNCHANGED <<reset_in_flight, size, scale_factor, transparent,
                   opaque_region, viewport, viewport_dest>>

\* SubsurfaceState::request_frame_callback, reached through
\* Subsurface::pre_present_notify.
request_frame_callback ==
    /\ UNCHANGED SurfaceOthers
    /\ IF frame_callback_state \in {"None", "Received"}
       THEN \* the state becomes Requested and surface.frame(..) is sent
            /\ in_flight < MaxInFlight
            /\ frame_callback_state' = "Requested"
            /\ in_flight' = in_flight + 1
            /\ entered' = entered + 1
            /\ sres' = SurfaceResult("request_frame_callback", TRUE, size)
       ELSE \* FrameCallbackState::Requested => ()
            /\ sres' = SurfaceResult("request_frame_callback", FALSE, size)
            /\ UNCHANGED <<frame_callback_state, in_flight, entered>>
    /\ UNCHANGED <<reset_in_flight, size, scale_factor, transparent,
                   opaque_region, viewport, viewport_dest>>

\* SubsurfaceState::frame_callback_received, called when the compositor
\* fires one of the frame callbacks in flight.
frame_callback_received ==
    /\ UNCHANGED SurfaceOthers
    /\ in_flight >= 1
    /\ in_flight' = in_flight - 1
    /\ frame_callback_state' = "Received"
    /\ entered' = 0
    /\ sres' = SurfaceResult("frame_callback_received", FALSE, size)
    /\ UNCHANGED <<reset_in_flight, size, scale_factor, transparent,
                   opaque_region, viewport, viewport_dest>>

\* SubsurfaceState::frame_callback_reset.
frame_callback_reset ==
    /\ UNCHANGED SurfaceOthers
    /\ frame_callback_state' = "None"
    /\ reset_in_flight' = (reset_in_flight \/ frame_callback_state = "Requested")
    /\ sres' = SurfaceResult("frame_callback_reset", FALSE, size)
    /\ UNCHANGED <<in_flight, entered, size, scale_factor, transparent,
                   opaque_region, viewport, viewport_dest>>

\* SubsurfaceState::resize: the new size, the transparency hint and the
\* viewport destination.
resize(surface_size, region_ok) ==
    /\ size' = surface_size
    /\ opaque_region' = reload_transparency_hint(transparent, region_ok)
    /\ viewport_dest' = IF viewport THEN {surface_size} ELSE viewport_dest

\* SubsurfaceState::request_surface_size.
request_surface_size(surface_size, region_ok) ==
    /\ UNCHANGED SurfaceOthers
    /\ resize(to_logical(surface_size, scale_factor), region_ok)
    /\ sres' = [SurfaceResult("request_surface_size", FALSE,
                  logical_to_physical_rounded(
                      to_logical(surface_size, scale_factor), scale_factor))
                EXCEPT !.warned = hint_warns(transparent, region_ok)]
    /\ UNCHANGED <<frame_callback_state, in_flight, entered, reset_in_flight,
                   scale_factor, transparent, viewport>>

\* SubsurfaceState::set_scale_factor.
set_scale_factor(scale) ==
    /\ UNCHANGED SurfaceOthers
    /\ scale_factor' = scale
    /\ sres' = SurfaceResult("set_scale_factor", FALSE, size)
    /\ UNCHANGED <<frame_callback_state, in_flight, entered, reset_in_flight,
                   size, transparent, opaque_region, viewport, viewport_dest>>

\* SubsurfaceState::set_transparent.
set_transparent(is_transparent, region_ok) ==
    /\ UNCHANGED SurfaceOthers
    /\ transparent' = is_transparent
    /\ opaque_region' = reload_transparency_hint(is_transparent, region_ok)
    /\ sres' = [SurfaceResult("set_transparent", FALSE, size)
                EXCEPT !.arg = {is_transparent},
                       !.warned = hint_warns(is_transparent, region_ok)]
    /\ UNCHANGED <<frame_callback_state, in_flight, entered, reset_in_flight,
                   size, scale_factor, viewport, viewport_dest>>

SNext ==
    \/ request_frame_callback
    \/ frame_callback_received
    \/ frame_callback_reset
    \/ \E sz \in Sizes, region_ok \in BOOLEAN : request_surface_size(sz, region_ok)
    \/ \E scale \in Scales : set_scale_factor(scale)
    \/ \E t \in BOOLEAN, region_ok \in BOOLEAN : set_transparent(t, region_ok)

SurfaceInit == HInit /\ RIdle /\ GIdle /\ SInit /\ CIdle /\ BIdle /\ LIdle /\ OIdle /\ PIdle

SurfaceSpec == SurfaceInit /\ [][SNext]_vars

C12_RequestFrameCallback ==
    [][sres'.op = "request_frame_callback" =>
         IF frame_callback_state = "Requested"
         THEN /\ frame_callback_state' = "Requested"
              /\ in_flight' = in_flight
              /\ ~sres'.sent
         ELSE /\ frame_callback_state' = "Requested"
              /\ in_flight' = in_flight + 1
              /\ sres'.sent]_vars

\* A frame request has been sent and is the only one in flight.
C12_Witness ==
    /\ sres.op = "request_frame_callback"
    /\ sres.sent
    /\ frame_callback_state = "Requested"
    /\ in_flight = 1

\* C13: the logical size of the surface is never below the minimum of 2 x 1,
\* whatever size was passed to request_surface_size.
C13_SizeNeverBelowMinimum ==
    /\ size.w >= MIN_WINDOW_WIDTH
    /\ size.h >= MIN_WINDOW_HEIGHT

\* ------------------------------------------------------------------------
\* SubsurfaceState: cursor selection and visibility
\* (wayland/window/subsurface/state.rs)
\* ------------------------------------------------------------------------

CursorIds == 0..(NumCursors - 1)

\* The cursors an application can select on a Wayland surface.
Cursors == {Cursor(kind, id) : kind \in {"Named", "Custom"}, id \in CursorIds}

\* Custom cursors created by the X11 backend.
XCursors == {Cursor("X", id) : id \in CursorIds}

\* The arguments of set_cursor and of set_custom_cursor.
NamedCursors == {c \in Cursors : c.kind = "Named"}

CustomCursors == {c \in Cursors : c.kind = "Custom"} \cup XCursors

\* The cursor surface set to none.
Hidden == Cursor("Hidden", 0)

\* One wl_pointer.set_cursor request: the pointer, the cursor and the enter
\* serial that authorizes it.
CursorCall(p, cursor, enter_serial) ==
    [p |-> p, cursor |-> cursor, serial |-> enter_serial]

\* The cursor is set on every live bound pointer, each with its own latest
\* enter serial.
ApplyCursor(cursor) ==
    [i \in 1..Len(LiveBound) |->
        CursorCall(LiveBound[i], cursor, serial[LiveBound[i]])]

\* The cursor last requested for each pointer after the calls cs, which
\* hold at most one call per pointer.
AfterCursorCalls(cs) ==
    [p \in Pointers |->
        IF \E i \in DOMAIN cs : cs[i].p = p
        THEN (CHOOSE c \in {cs[i] : i \in DOMAIN cs} : c.p = p).cursor
        ELSE pcursor[p]]

\* A cursor operation that selects sel, makes the calls cs and returns.
CursorStep(res, sel, visible, cs) ==
    /\ selected_cursor' = sel
    /\ cursor_visible' = visible
    /\ ccalls' = cs
    /\ pcursor' = AfterCursorCalls(cs)
    /\ cres' = res
    /\ UNCHANGED <<serial, next_serial, pointers, live>>

\* Mutant of set_cursor: the icon is pushed to the pointers although the
\* cursor is hidden.
set_cursor_ignores_visible(cursor_icon) ==
    /\ UNCHANGED CursorOthers
    /\ CursorStep(CursorResult("set_cursor", {cursor_icon}, {}),
                  cursor_icon, cursor_visible, ApplyCursor(cursor_icon))

\* SubsurfaceState::set_cursor.
set_cursor(cursor_icon) ==
    /\ UNCHANGED CursorOthers
    /\ CursorStep(CursorResult("set_cursor", {cursor_icon}, {}),
                  cursor_icon, cursor_visible,
                  IF ~cursor_visible THEN <<>> ELSE ApplyCursor(cursor_icon))

\* SubsurfaceState::set_custom_cursor.
set_custom_cursor(cursor) ==
    /\ UNCHANGED CursorOthers
    /\ \* PlatformCustomCursor::X exists in builds with the x11 feature only
       (cursor.kind = "X") => x11_platform
    /\ IF cursor.kind = "X"
       THEN \* "passed a X11 cursor to Wayland backend": logged, nothing is done
            CursorStep(CursorResult("set_custom_cursor", {cursor}, {}),
                       selected_cursor, cursor_visible, <<>>)
       ELSE CursorStep(CursorResult("set_custom_cursor", {cursor}, {}),
                       cursor, cursor_visible,
                       IF cursor_visible THEN ApplyCursor(cursor) ELSE <<>>)

\* Mutant of set_cursor_visible: showing the cursor sets the default icon.
set_cursor_visible_default(visible) ==
    /\ UNCHANGED CursorOthers
    /\ CursorStep(CursorResult("set_cursor_visible", {}, {visible}),
                  selected_cursor, visible,
                  IF visible
                  THEN ApplyCursor(Cursor("Named", 0))
                  ELSE ApplyCursor(Hidden))

\* Mutant of set_cursor_visible: every pointer is hidden with the enter
\* serial of the first bound pointer.
set_cursor_visible_first_serial(visible) ==
    /\ UNCHANGED CursorOthers
    /\ CursorStep(CursorResult("set_cursor_visible", {}, {visible}),
                  selected_cursor, visible,
                  IF visible
                  THEN ApplyCursor(selected_cursor)
                  ELSE [i \in 1..Len(LiveBound) |->
                           CursorCall(LiveBound[i], Hidden, serial[LiveBound[1]])])

\* SubsurfaceState::set_cursor_visible. Showing a named icon goes through
\* set_cursor, which selects the same icon again; showing a custom cursor
\* goes through apply_custom_cursor.
set_cursor_visible(visible) ==
    /\ UNCHANGED CursorOthers
    /\ CursorStep(CursorResult("set_cursor_visible", {}, {visible}),
                  selected_cursor, visible,
                  IF visible
                  THEN ApplyCursor(selected_cursor)
                  ELSE ApplyCursor(Hidden))

\* The pointer enters the surface: it is bound to the surface if it was not,
\* and the enter event's serial becomes its latest enter serial.
CursorPointerEnter(p) ==
    /\ UNCHANGED CursorOthers
    /\ p \in live
    /\ next_serial <= MaxSerial
    /\ pointers' = IF \E i \in DOMAIN pointers : pointers[i] = p
                   THEN pointers
                   ELSE Append(pointers, p)
    /\ serial' = [serial EXCEPT ![p] = next_serial]
    /\ next_serial' = next_serial + 1
    /\ ccalls' = <<>>
    /\ cres' = CursorResult("pointer_enter", {}, {})
    /\ UNCHANGED <<cursor_visible, selected_cursor, pcursor, live>>

\* A pointer device is destroyed: its weak references no longer upgrade.
CursorPointerDestroyed(p) ==
    /\ UNCHANGED CursorOthers
    /\ p \in live
    /\ live' = live \ {p}
    /\ ccalls' = <<>>
    /\ cres' = CursorResult("pointer_destroyed", {}, {})
    /\ UNCHANGED <<cursor_visible, selected_cursor, serial, next_serial,
                   pcursor, pointers>>

CNext ==
    \/ \E icon \in NamedCursors : set_cursor(icon)
    \/ \E cursor \in CustomCursors : set_custom_cursor(cursor)
    \/ \E visible \in BOOLEAN : set_cursor_visible(visible)
    \/ \E p \in Pointers : CursorPointerEnter(p)
    \/ \E p \in Pointers : CursorPointerDestroyed(p)

\* A surface created in a build with the wayland feature, with or without
\* the x11 feature.
CursorInit ==
    /\ HInit /\ RIdle /\ GIdle /\ SIdle /\ CInit /\ LIdle /\ OIdle /\ PIdle
    /\ \E x11 \in BOOLEAN : BInitWith(TRUE, x11)

CursorSpec == CursorInit /\ [][CNext]_vars


\* ---- Claims about the cursor ----

\* A step is a call of set_cursor_visible(true) / set_cursor_visible(false) /
\* set_cursor or set_custom_cursor.
ShowCalled == cres'.op = "set_cursor_visible" /\ cres'.visible = {TRUE}

HideCalled == cres'.op = "set_cursor_visible" /\ cres'.visible = {FALSE}

SelectCalled == cres'.op \in {"set_cursor", "set_custom_cursor"}

\* The live bound pointers.
LiveBoundSet == {LiveBound[i] : i \in DOMAIN LiveBound}

\* The pointers the calls cs were made on.
CalledOn(cs) == {cs[i].p : i \in DOMAIN cs}

\* C14: showing the cursor, after hiding it or not, requests exactly the
\* selected cursor (named or custom) on every live bound pointer, and
\* set_cursor_visible never changes the selection.
C14_ShowRestoresSelection ==
    [][/\ cres'.op = "set_cursor_visible" => selected_cursor' = selected_cursor
       /\ ShowCalled =>
            /\ CalledOn(ccalls') = LiveBoundSet
            /\ \A i \in DOMAIN ccalls' : ccalls'[i].cursor = selected_cursor
            /\ \A p \in LiveBoundSet : pcursor'[p] = selected_cursor]_vars

\* A hidden custom cursor has been shown again on two pointers.
C14_Witness ==
    /\ cres.op = "set_cursor_visible"
    /\ cres.visible = {TRUE}
    /\ ~cres.before
    /\ selected_cursor.kind = "Custom"
    /\ Len(LiveBound) = 2
    /\ \A p \in LiveBoundSet : pcursor[p] = selected_cursor

\* What set_cursor and set_custom_cursor do with a cursor c they accept.
SelectionApplied(c) ==
    /\ selected_cursor' = c
    /\ IF ~cursor_visible
       THEN ccalls' = <<>> /\ pcursor' = pcursor
       ELSE /\ CalledOn(ccalls') = LiveBoundSet
            /\ \A p \in LiveBoundSet : pcursor'[p] = c

\* What set_cursor_visible(true) applies.
ShowAppliesSelection ==
    ShowCalled => \A p \in LiveBoundSet : pcursor'[p] = selected_cursor'

\* C15 as stated: set_cursor and set_custom_cursor record the new selection;
\* while the cursor is hidden they make no call on any pointer, while it is
\* visible they push the cursor to every live bound pointer; and the
\* recorded selection is what is applied when the cursor is shown again.
C15_SelectionRecorded ==
    [][/\ SelectCalled => \A c \in cres'.cursor : SelectionApplied(c)
       /\ ShowAppliesSelection]_vars

\* C15: set_cursor, and set_custom_cursor with a Wayland custom cursor,
\* record the new selection; while the cursor is hidden they make no call on
\* any pointer, while it is visible they push the cursor to every live bound
\* pointer; the recorded selection is what is applied when the cursor is
\* shown again. set_custom_cursor with an X11 custom cursor records nothing
\* and makes no call.
C15_WaylandSelectionRecorded ==
    [][/\ SelectCalled =>
            \A c \in cres'.cursor :
                IF c.kind = "X"
                THEN /\ selected_cursor' = selected_cursor
                     /\ ccalls' = <<>>
                     /\ pcursor' = pcursor
                ELSE SelectionApplied(c)
       /\ ShowAppliesSelection]_vars

\* A custom cursor has been selected while the cursor was hidden on a
\* pointer: it is recorded and the pointer's cursor is still none.
C15_Witness ==
    /\ cres.op = "set_custom_cursor"
    /\ ~cres.before
    /\ selected_cursor \in cres.cursor
    /\ ccalls = <<>>
    /\ \E p \in LiveBoundSet : pcursor[p] = Hidden

\* C16: set_cursor_visible(false) sets the cursor surface to none on every
\* live bound pointer and on no other, each call with the latest enter
\* serial of the pointer it is made on.
C16_HideUsesOwnSerial ==
    [][HideCalled =>
         /\ CalledOn(ccalls') = LiveBoundSet
         /\ Len(ccalls') = Cardinality(LiveBoundSet)
         /\ \A i \in DOMAIN ccalls' :
               /\ ccalls'[i].p \in live
               /\ ccalls'[i].cursor = Hidden
               /\ ccalls'[i].serial = serial[ccalls'[i].p]]_vars

\* The cursor has been hidden on two pointers, the one bound first having
\* entered the surface again after the other.
C16_Witness ==
    /\ cres.op = "set_cursor_visible"
    /\ cres.visible = {FALSE}
    /\ Len(ccalls) = 2
    /\ ccalls[1].serial > ccalls[2].serial
    /\ \A i \in DOMAIN ccalls : pcursor[ccalls[i].p] = Hidden

\* ------------------------------------------------------------------------
\* EventLoop::new: thread check and backend selection
\* (platform_impl/linux/mod.rs)
\* ------------------------------------------------------------------------

\* A variable is unset, set to the empty string, set to a non-empty string,
\* or set to a value that is not valid Unicode.
EnvValues == {"unset", "empty", "value", "not_unicode"}

\* The backends compiled into the build: the variants of enum Backend.
Compiled ==
    (IF wayland_platform THEN {"Wayland"} ELSE {})
        \cup (IF x11_platform THEN {"X"} ELSE {})

\* attributes.forced_backend: None or one of the compiled backends.
Forced == {"None", "Wayland", "X"}

\* env::var(name).ok(): Some(value) if the variable is set and is valid
\* Unicode, as a set with at most one element.
env_var(name) == IF env[name] \in {"empty", "value"} THEN {env[name]} ELSE {}

\* Option::filter(|var| !var.is_empty()).
filter_not_empty(opt) == {v \in opt : v # "empty"}

\* Option::or_else.
or_else(opt, other) == IF opt # {} THEN opt ELSE other

\* Mutant of wayland_display: an empty WAYLAND_SOCKET counts as present.
wayland_display_unfiltered ==
    or_else(filter_not_empty(env_var("WAYLAND_DISPLAY")),
            env_var("WAYLAND_SOCKET")) # {}

\* The second element of the matched tuple: Wayland is present.
wayland_display ==
    filter_not_empty(or_else(filter_not_empty(env_var("WAYLAND_DISPLAY")),
                             env_var("WAYLAND_SOCKET"))) # {}

\* The third element of the matched tuple: X11 is present.
x11_display ==
    IF env_var("DISPLAY") # {}
    THEN \A v \in env_var("DISPLAY") : v # "empty"
    ELSE FALSE

\* Mutant of not_supported_msg: the two notes are exchanged.
not_supported_msg_swapped ==
    IF wayland_display /\ ~wayland_platform
    THEN Message({"WAYLAND_DISPLAY", "WAYLAND_SOCKET"}, "x11")
    ELSE IF x11_display /\ ~x11_platform
    THEN Message({"DISPLAY"}, "wayland")
    ELSE Message({"WAYLAND_DISPLAY", "WAYLAND_SOCKET", "DISPLAY"}, "none")

\* The message of the error returned when no backend is present.
not_supported_msg ==
    IF wayland_display /\ ~wayland_platform
    THEN \* "DISPLAY is not set; note: enable the `winit/wayland` feature .."
         Message({"DISPLAY"}, "wayland")
    ELSE IF x11_display /\ ~x11_platform
    THEN \* "neither WAYLAND_DISPLAY nor WAYLAND_SOCKET is set; note: enable
         \* the `winit/x11` feature .."
         Message({"WAYLAND_DISPLAY", "WAYLAND_SOCKET"}, "x11")
    ELSE \* "neither WAYLAND_DISPLAY nor WAYLAND_SOCKET nor DISPLAY is set."
         Message({"WAYLAND_DISPLAY", "WAYLAND_SOCKET", "DISPLAY"}, "none")

\* Mutant of select_backend: the environment is looked at before the
\* forced backend.
select_backend_env_first(forced) ==
    CASE wayland_platform /\ wayland_display -> "Wayland"
      [] x11_platform /\ x11_display -> "X"
      [] forced # "None" -> forced
      [] OTHER -> "None"

\* The match on (forced_backend, wayland_display, x11_display): the backend
\* selected, "None" when the last arm returns the error. The arms are tried
\* in order.
select_backend(forced) ==
    CASE forced # "None" -> forced
      [] forced = "None" /\ wayland_platform /\ wayland_display -> "Wayland"
      [] forced = "None" /\ ~(wayland_platform /\ wayland_display)
            /\ x11_platform /\ x11_display -> "X"
      [] OTHER -> "None"

\* Mutant of thread_check: the any_thread attribute is not looked at.
thread_check_ignores_any_thread(any_thread, main_thread) == ~main_thread

\* if !attributes.any_thread && !is_main_thread() { panic!(..) }
thread_check(any_thread, main_thread) == ~any_thread /\ ~main_thread

\* EventLoop::new, called with the attributes forced and any_thread on the
\* main thread or not; connects tells whether creating the backend's event
\* loop succeeds.
EventLoopNew(forced, any_thread, main_thread, connects) ==
    /\ UNCHANGED BackendOthers
    /\ forced \in {"None"} \cup Compiled
    /\ bres' =
         IF thread_check(any_thread, main_thread)
         THEN BackendResult(forced, any_thread, main_thread, "panic", "None",
                            Message({}, "none"))
         ELSE IF select_backend(forced) = "None"
         THEN BackendResult(forced, any_thread, main_thread, "NotSupported",
                            "None", not_supported_msg)
         ELSE BackendResult(forced, any_thread, main_thread,
                            IF connects THEN "Ok" ELSE "Err",
                            select_backend(forced), Message({}, "none"))
    /\ UNCHANGED <<wayland_platform, x11_platform, env>>

\* The environment of the process changes between two calls.
SetEnv(name, value) ==
    /\ UNCHANGED BackendOthers
    /\ env[name] # value
    /\ env' = [env EXCEPT ![name] = value]
    /\ bres' = [bres EXCEPT !.op = "set_var"]
    /\ UNCHANGED <<wayland_platform, x11_platform>>

BNext ==
    \/ \E forced \in Forced, any_thread \in BOOLEAN, main_thread \in BOOLEAN,
          connects \in BOOLEAN :
          EventLoopNew(forced, any_thread, main_thread, connects)
    \/ \E name \in EnvNames, value \in EnvValues : SetEnv(name, value)

BackendInit == HInit /\ RIdle /\ GIdle /\ SIdle /\ CIdle /\ BInit /\ LIdle /\ OIdle /\ PIdle

BackendSpec == BackendInit /\ [][BNext]_vars

\* ---- Claims about the backend selection ----

\* A step is a call of EventLoop::new that got past the thread check.
Selecting == bres'.op = "new" /\ bres'.outcome # "panic"

\* A variable holds a non-empty string that is valid Unicode.
Present(name) == env[name] = "value"

\* A variable holds a non-empty value, valid Unicode or not.
NonEmpty(name) == env[name] \in {"value", "not_unicode"}

\* One of the Wayland variables is present.
WaylandPresent == Present("WAYLAND_DISPLAY") \/ Present("WAYLAND_SOCKET")

\* The backend chosen from the environment and the build's features.
Expected ==
    IF wayland_platform /\ WaylandPresent
    THEN "Wayland"
    ELSE IF x11_platform /\ Present("DISPLAY")
    THEN "X"
    ELSE "None"

\* C17: a forced backend is the backend EventLoop::new selects, whatever
\* WAYLAND_DISPLAY, WAYLAND_SOCKET and DISPLAY hold, also when none of them
\* is present.
C17_ForcedBackendWins ==
    [][(Selecting /\ bres'.forced # "None") =>
         /\ bres'.backend = bres'.forced
         /\ bres'.outcome \in {"Ok", "Err"}]_vars

\* The forced X11 backend has been selected although only a Wayland variable
\* is present and Wayland is compiled in.
C17_Witness ==
    /\ bres.op = "new"
    /\ bres.forced = "X"
    /\ bres.backend = "X"
    /\ wayland_platform
    /\ Present("WAYLAND_DISPLAY")
    /\ env["DISPLAY"] = "unset"

\* C18 as stated: with no forced backend, a non-empty Wayland variable
\* (WAYLAND_DISPLAY, or WAYLAND_SOCKET when WAYLAND_DISPLAY is unset or
\* empty) selects Wayland whether or not DISPLAY is set; otherwise a
\* non-empty DISPLAY selects X11.
C18_EnvironmentSelects ==
    [][(Selecting /\ bres'.forced = "None") =>
         LET wayland == \/ NonEmpty("WAYLAND_DISPLAY")
                        \/ /\ env["WAYLAND_DISPLAY"] \in {"unset", "empty"}
                           /\ NonEmpty("WAYLAND_SOCKET")
         IN /\ wayland => bres'.backend = "Wayland"
            /\ (~wayland /\ NonEmpty("DISPLAY")) => bres'.backend = "X"]_vars

\* C18: with no forced backend, the backend is a function of the environment
\* and of the build's features: a Wayland variable holding a non-empty
\* Unicode string selects Wayland if Wayland is compiled in, whether or not
\* DISPLAY is set; otherwise DISPLAY holding a non-empty Unicode string
\* selects X11 if X11 is compiled in; otherwise no backend is selected. An
\* empty or non-Unicode value counts as absent.
C18_EnvironmentAndFeaturesSelect ==
    [][(Selecting /\ bres'.forced = "None") =>
         /\ bres'.backend = Expected
         /\ (Expected = "None") <=> (bres'.outcome = "NotSupported")]_vars

\* Wayland has been selected from WAYLAND_SOCKET, WAYLAND_DISPLAY being
\* empty and DISPLAY being set.
C18_Witness ==
    /\ bres.op = "new"
    /\ bres.forced = "None"
    /\ bres.backend = "Wayland"
    /\ env["WAYLAND_DISPLAY"] = "empty"
    /\ Present("WAYLAND_SOCKET")
    /\ Present("DISPLAY")

\* The call failed because no compiled backend's variable is present.
NotSelected == Selecting /\ bres'.forced = "None" /\ Expected = "None"

\* The variables that are present.
Seen == {n \in EnvNames : Present(n)}

\* C19 as stated: with no forced backend, when no variable is present or the
\* only present one belongs to a compiled-out backend, EventLoop::new fails
\* with NotSupported and selects nothing; the error names the variable that
\* was seen and the feature to enable, and with nothing present it names the
\* missing variables.
C19_ErrorNamesSeenVariable ==
    [][NotSelected =>
         /\ bres'.outcome = "NotSupported"
         /\ bres'.backend = "None"
         /\ IF Seen = {}
            THEN bres'.msg = Message(EnvNames, "none")
            ELSE /\ Seen \cap bres'.msg.not_set # {}
                 /\ bres'.msg.feature # "none"]_vars

\* C19: with no forced backend, when no variable is present or the only
\* present one belongs to a compiled-out backend, EventLoop::new fails with
\* NotSupported and selects nothing; the error names variables that are not
\* present: DISPLAY, with the note to enable the wayland feature, when a
\* Wayland variable was seen; WAYLAND_DISPLAY and WAYLAND_SOCKET, with the
\* note to enable the x11 feature, when DISPLAY was seen; all three, with no
\* note, when none was seen.
C19_ErrorNamesMissingVariables ==
    [][NotSelected =>
         /\ bres'.outcome = "NotSupported"
         /\ bres'.backend = "None"
         /\ \A n \in bres'.msg.not_set : ~Present(n)
         /\ bres'.msg =
              IF WaylandPresent
              THEN Message({"DISPLAY"}, "wayland")
              ELSE IF Present("DISPLAY")
              THEN Message({"WAYLAND_DISPLAY", "WAYLAND_SOCKET"}, "x11")
              ELSE Message(EnvNames, "none")]_vars

\* The call has failed in a build without the wayland feature with
\* WAYLAND_DISPLAY present.
C19_Witness ==
    /\ bres.op = "new"
    /\ bres.outcome = "NotSupported"
    /\ ~wayland_platform
    /\ Present("WAYLAND_DISPLAY")
    /\ bres.msg = Message({"DISPLAY"}, "wayland")

\* C20: EventLoop::new panics exactly when it is called off the main thread
\* without the any_thread attribute, whatever the environment and the forced
\* backend are, and then no backend is selected and nothing is created.
C20_MainThreadCheck ==
    [][bres'.op = "new" =>
         /\ (bres'.outcome = "panic") <=>
               (~bres'.any_thread /\ ~bres'.main_thread)
         /\ (bres'.outcome = "panic") =>
               (bres'.backend = "None" /\ bres'.msg = Message({}, "none"))]_vars

\* The call has panicked off the main thread although a backend was forced
\* and its variable is present.
C20_Witness ==
    /\ bres.op = "new"
    /\ bres.outcome = "panic"
    /\ ~bres.main_thread
    /\ bres.forced = "Wayland"
    /\ Present("WAYLAND_DISPLAY")

\* ------------------------------------------------------------------------
\* Subsurface handles: creation, drop, and the event loop's tables
\* (wayland/window/subsurface/mod.rs)
\* ------------------------------------------------------------------------

\* Surface ids (winit_wayland::make_wid).
Surfaces == 1..NumSurfaces

\* How Subsurface::new ends: wl_subcompositor is not available, the
\* roundtrip fails, or the handle is returned.
NewOutcomes == {"no_subcompositor", "roundtrip_failed", "Ok"}

\* The event loop waits, no surface exists and nothing has pinged it.
LifeRInit ==
    /\ redraw_requested = FALSE
    /\ pinged = FALSE
    /\ tpc = [t \in 1..NumThreads |-> "idle"]
    /\ lpc = "wait"
    /\ reqsSince = 0
    /\ roundReqs = 0
    /\ roundDelivered = 0

\* Subsurface::new for the surface id s, run on the loop's thread.
New(s, outcome) ==
    /\ UNCHANGED LifeOthers
    /\ handles[s] = "none"
    /\ s \notin subsurfaces \cup window_requests
    /\ IF outcome = "no_subcompositor"
       THEN \* .ok_or(os_error!("wl_subcompositor not available"))?
            UNCHANGED <<subsurfaces, window_requests, closed, pinged, handles>>
       ELSE \* both tables get their entry, closed: false
            /\ subsurfaces' = subsurfaces \cup {s}
            /\ window_requests' = window_requests \cup {s}
            /\ closed' = [closed EXCEPT ![s] = FALSE]
            /\ IF outcome = "roundtrip_failed"
               THEN \* event_queue.roundtrip(..).map_err(..)?
                    UNCHANGED <<pinged, handles>>
               ELSE \* event_loop_awakener.ping(); Ok(Self {..})
                    /\ pinged' = TRUE
                    /\ handles' = [handles EXCEPT ![s] = "live"]
    /\ lres' = NewResult(s, outcome)
    /\ UNCHANGED <<notified, lpc>>

\* Drop for Subsurface, first step: closed.store(true).
Drop(s) ==
    /\ UNCHANGED LifeOthers
    /\ handles[s] = "live"
    /\ closed' = [closed EXCEPT ![s] = TRUE]
    /\ handles' = [handles EXCEPT ![s] = "dropping"]
    /\ lres' = [lres EXCEPT !.op = "drop"]
    /\ UNCHANGED <<subsurfaces, window_requests, notified, pinged, lpc>>

\* Mutant of DropPing: the loop is not woken.
DropNoPing(s) ==
    /\ UNCHANGED LifeOthers
    /\ handles[s] = "dropping"
    /\ handles' = [handles EXCEPT ![s] = "dropped"]
    /\ lres' = [lres EXCEPT !.op = "drop_ping"]
    /\ UNCHANGED <<subsurfaces, window_requests, closed, notified, pinged,
                   lpc>>

\* Drop for Subsurface, second step: event_loop_awakener.ping().
DropPing(s) ==
    /\ UNCHANGED LifeOthers
    /\ handles[s] = "dropping"
    /\ pinged' = TRUE
    /\ handles' = [handles EXCEPT ![s] = "dropped"]
    /\ lres' = [lres EXCEPT !.op = "drop_ping"]
    /\ UNCHANGED <<subsurfaces, window_requests, closed, notified, lpc>>

\* The loop's wait step returns because the wake source was pinged.
LifeLoopWake ==
    /\ UNCHANGED LifeOthers
    /\ lpc = "wait"
    /\ pinged
    /\ pinged' = FALSE
    /\ lpc' = "deliver"
    /\ lres' = [lres EXCEPT !.op = "wake"]
    /\ UNCHANGED <<subsurfaces, window_requests, closed, handles, notified>>

\* The loop's wait step returns for another reason.
LifeLoopWakeOther ==
    /\ UNCHANGED LifeOthers
    /\ lpc = "wait"
    /\ lpc' = "deliver"
    /\ lres' = [lres EXCEPT !.op = "wake_other"]
    /\ UNCHANGED <<subsurfaces, window_requests, closed, handles, notified,
                   pinged>>

\* The loop's delivery step: the closing notification is delivered for every
\* surface whose closed flag it finds set.
LifeLoopNotify ==
    /\ UNCHANGED LifeOthers
    /\ lpc = "deliver"
    /\ notified' = notified \cup {s \in window_requests : closed[s]}
    /\ lpc' = "about_to_wait"
    /\ lres' = [lres EXCEPT !.op = "notify"]
    /\ UNCHANGED <<subsurfaces, window_requests, closed, handles, pinged>>

\* Mutant of LifeLoopRemove: every surface flagged closed is removed.
LifeLoopRemoveClosed ==
    /\ UNCHANGED LifeOthers
    /\ lpc = "about_to_wait"
    /\ subsurfaces' = {s \in subsurfaces : ~closed[s]}
    /\ window_requests' = {s \in window_requests : ~closed[s]}
    /\ lpc' = "wait"
    /\ lres' = [lres EXCEPT !.op = "remove"]
    /\ UNCHANGED <<closed, handles, notified, pinged>>

\* The end of the round: the loop removes from its tables the surfaces
\* whose closing notification was delivered.
LifeLoopRemove ==
    /\ UNCHANGED LifeOthers
    /\ lpc = "about_to_wait"
    /\ subsurfaces' = {s \in subsurfaces : ~(closed[s] /\ s \in notified)}
    /\ window_requests' =
          {s \in window_requests : ~(closed[s] /\ s \in notified)}
    /\ lpc' = "wait"
    /\ lres' = [lres EXCEPT !.op = "remove"]
    /\ UNCHANGED <<closed, handles, notified, pinged>>

LNext ==
    \/ \E s \in Surfaces, outcome \in NewOutcomes : New(s, outcome)
    \/ \E s \in Surfaces : Drop(s)
    \/ \E s \in Surfaces : DropPing(s)
    \/ LifeLoopWake
    \/ LifeLoopWakeOther
    \/ LifeLoopNotify
    \/ LifeLoopRemove

LifeInit ==
    HInit /\ LifeRInit /\ GIdle /\ SIdle /\ CIdle /\ BIdle /\ LInit /\ OIdle /\ PIdle

LifeSpec == LifeInit /\ [][LNext]_vars

\* The thread dropping a handle gets to its ping, and the loop to each of
\* its steps; nothing else ever needs to wake the loop.
LifeFairness ==
    /\ \A s \in Surfaces : WF_vars(DropPing(s))
    /\ WF_vars(LifeLoopWake)
    /\ WF_vars(LifeLoopNotify)
    /\ WF_vars(LifeLoopRemove)

FairLifeSpec == LifeSpec /\ LifeFairness


\* ---- Claims about closing and the loop's tables ----

\* C21: dropping a Subsurface handle sets closed and pings the wake source,
\* closed is never cleared again, and under fair scheduling the loop
\* delivers the closing notification in a later round, also when it was
\* waiting, with no ping pending, at the time of the drop.
C21_CloseEventuallyObserved ==
    /\ [][\A s \in Surfaces :
            /\ closed[s] => closed'[s]
            /\ (handles[s] # "dropped" /\ handles'[s] = "dropped") =>
                  (closed'[s] /\ pinged')]_vars
    /\ \A s \in Surfaces : closed[s] ~> (s \in notified)

\* A handle is being dropped while the loop waits with no ping pending: the
\* flag is set and the ping is still to come.
C21_Witness ==
    \E s \in Surfaces :
        /\ handles[s] = "dropping"
        /\ closed[s]
        /\ s \notin notified
        /\ lpc = "wait"
        /\ ~pinged

\* C22: an entry leaves the loop's tables only when its surface is flagged
\* closed and its closing notification has been delivered; a created surface
\* has its entry in both tables.
C22_RemovedAfterNotification ==
    [][\A s \in Surfaces :
         /\ (s \in subsurfaces /\ s \notin subsurfaces') =>
               (closed[s] /\ s \in notified)
         /\ (s \in window_requests /\ s \notin window_requests') =>
               (closed[s] /\ s \in notified)
         /\ (handles[s] = "none" /\ handles'[s] = "live") =>
               (s \in subsurfaces' /\ s \in window_requests')]_vars

\* One surface has been removed after its notification while another,
\* flagged closed after the delivery step, is still in the tables.
C22_Witness ==
    \E s \in Surfaces, r \in Surfaces :
        /\ handles[s] = "dropped"
        /\ s \in notified
        /\ s \notin subsurfaces \cup window_requests
        /\ closed[r]
        /\ r \notin notified
        /\ r \in subsurfaces \cap window_requests

\* C30: when Subsurface::new returns an error no entry for the surface id
\* is in the surface-state table or in the window-requests table, so every
\* entry belongs to a handle that exists or has been dropped.
C30_NewAllOrNothing ==
    /\ (lres.op = "new" /\ lres.res # "Ok") =>
          lres.s \notin subsurfaces \cup window_requests
    /\ \A s \in subsurfaces \cup window_requests : handles[s] # "none"


\* ---- Claims about transparency and the device size ----

\* A step is a call of set_transparent.
TransparentCalled == sres'.op = "set_transparent"

\* C23 as stated: set_transparent returns normally and records the flag;
\* true clears the opaque-region hint, false sets the fully opaque region,
\* and when allocating the region fails, which is only logged, the surface
\* has no opaque-region hint.
C23_FailureLeavesTransparent ==
    [][TransparentCalled =>
         \A t \in sres'.arg :
             /\ transparent' = t
             /\ t => (opaque_region' = "none" /\ ~sres'.warned)
             /\ (~t /\ ~sres'.warned) => opaque_region' = "full"
             /\ (~t /\ sres'.warned) => opaque_region' = "none"]_vars

\* C23: set_transparent returns normally and records the flag; true clears
\* the opaque-region hint, false sets the fully opaque region, and when
\* allocating the region fails, which is only logged, the hint is left as it
\* was before the call.
C23_FailureLeavesHint ==
    [][TransparentCalled =>
         \A t \in sres'.arg :
             /\ transparent' = t
             /\ t => (opaque_region' = "none" /\ ~sres'.warned)
             /\ (~t /\ ~sres'.warned) => opaque_region' = "full"
             /\ (~t /\ sres'.warned) => opaque_region' = opaque_region]_vars

\* set_transparent(false) has failed to allocate the region on a surface
\* that was marked opaque before: the opaque region is still set.
C23_Witness ==
    /\ sres.op = "set_transparent"
    /\ sres.arg = {FALSE}
    /\ sres.warned
    /\ ~transparent
    /\ opaque_region = "full"

\* ------------------------------------------------------------------------
\* The device size of the surface (Subsurface::surface_size,
\* SubsurfaceState::request_surface_size)
\* ------------------------------------------------------------------------

\* The width of the rounding scenario: logical (10, 3) at scale factor 1.5.
ScenarioWidth == 10

\* Sizes passed to request_surface_size, the scenario's among them.
SizeInputs ==
    [kind : {"Logical", "Physical"}, w : Dims \cup {ScenarioWidth}, h : Dims]

\* Subsurface::surface_size.
surface_size ==
    /\ UNCHANGED SurfaceOthers
    /\ sres' = SurfaceResult("surface_size", FALSE,
                             logical_to_physical_rounded(size, scale_factor))
    /\ UNCHANGED <<frame_callback_state, in_flight, entered, reset_in_flight,
                   size, scale_factor, transparent, opaque_region, viewport,
                   viewport_dest>>

SizeNext ==
    \/ \E sz \in SizeInputs, region_ok \in BOOLEAN :
          request_surface_size(sz, region_ok)
    \/ \E scale \in Scales : set_scale_factor(scale)
    \/ surface_size

SizeSpec == SurfaceInit /\ [][SizeNext]_vars

\* device is logical * scale / 2 rounded half away from zero, for
\* non-negative values: device - 1/2 <= logical * scale / 2 < device + 1/2.
RoundedHalfAway(logical, scale, device) ==
    /\ 2 * device - 1 <= logical * scale
    /\ logical * scale < 2 * device + 1

\* C24: the device size returned by request_surface_size and by surface_size
\* is the stored logical size times the scale factor, rounded half away from
\* zero in each dimension.
C24_DeviceSizeRounded ==
    [][sres'.op \in {"request_surface_size", "surface_size"} =>
         /\ RoundedHalfAway(size'.w, scale_factor', sres'.ret.w)
         /\ RoundedHalfAway(size'.h, scale_factor', sres'.ret.h)]_vars

\* The scenario: logical size (10, 3) at scale factor 1.5 has been reported
\* as device size (15, 5).
C24_Witness ==
    /\ sres.op = "surface_size"
    /\ size = LogicalSize(ScenarioWidth, 3)
    /\ scale_factor = 3
    /\ sres.ret = LogicalSize(15, 5)


\* ---- The two grab modes of the surface ----

\* C29: in every reachable state the internal grab mode equals the
\* user-visible grab mode, and a set_cursor_grab call that fails changes
\* neither of them.
C29_CurrentEqualsUserMode ==
    /\ [](current_grab_mode = user_grab_mode)
    /\ [][(GrabCalled /\ gres'.res # "Ok") =>
            /\ current_grab_mode' = current_grab_mode
            /\ user_grab_mode' = user_grab_mode]_vars

\* The grab has gone from confined to locked: both modes are locked.
C29_Witness ==
    /\ gres.op = "set_cursor_grab"
    /\ gres.res = "Ok"
    /\ gres.before = "Confined"
    /\ user_grab_mode = "Locked"
    /\ current_grab_mode = "Locked"


\* ---- No lost wake-up ----

\* C28: whenever the redraw flag is true, the wake-up for it is not lost: a
\* ping is pending, or is the next step of the request_redraw call that set
\* the flag, or the loop has been woken and has not run its delivery step
\* yet. This holds from the flag's initial true value on. Hence, under fair
\* scheduling, a true flag is followed by a round that delivers the
\* redraw-needed event, also for a request_redraw that found the flag true
\* and skipped the ping.
C28_NoLostWakeup ==
    /\ [](redraw_requested =>
            \/ pinged
            \/ \E t \in Threads : tpc[t] = "ping"
            \/ lpc = "deliver")
    /\ redraw_requested ~> (lpc = "about_to_wait" /\ roundDelivered = 1)

\* The loop has consumed the ping and is about to deliver; a request_redraw
\* made meanwhile found the flag true and returned without a ping.
C28_Witness ==
    /\ redraw_requested
    /\ ~pinged
    /\ lpc = "deliver"
    /\ reqsSince >= 1
    /\ \A t \in Threads : tpc[t] = "idle"


\* ------------------------------------------------------------------------
\* Methods of the Subsurface handle that request a redraw
\* (wayland/window/subsurface/mod.rs), called on any thread while the loop
\* runs
\* ------------------------------------------------------------------------

\* The sizes requested through the handle.
OpsSizes == {sz \in Sizes : sz.kind = "Logical" /\ sz.w = sz.h /\ sz.w >= MaxDim - 1}

\* The thread on which the methods of the handle are called; the loop runs on
\* its own thread.
OpsThreads == {1}

\* The record of the last call of a method of the handle; seq alternates so
\* that two equal calls in a row are still two steps.
OpsResult(op, t, ok) == [op |-> op, t |-> t, ok |-> ok, seq |-> 1 - ores.seq]

\* self.request_redraw() inside another method, on thread t: the
\* compare_exchange(false, true); the ping, when the exchange succeeded, is
\* the thread's next step (RequestRedrawPing).
request_redraw(t) ==
    /\ reqsSince' = reqsSince + 1
    /\ IF redraw_requested = FALSE
       THEN /\ redraw_requested' = TRUE
            /\ tpc' = [tpc EXCEPT ![t] = "ping"]
       ELSE UNCHANGED <<redraw_requested, tpc>>
    /\ UNCHANGED <<pinged, lpc, roundReqs, roundDelivered>>

\* Subsurface::request_surface_size on thread t: the operation on the state
\* under the lock, then request_redraw.
Subsurface_request_surface_size(t, new_size, region_ok) ==
    /\ UNCHANGED OpsOthers
    /\ tpc[t] = "idle"
    /\ reqsSince < MaxReq
    /\ resize(to_logical(new_size, scale_factor), region_ok)
    /\ sres' = [SurfaceResult("request_surface_size", FALSE,
                  logical_to_physical_rounded(
                      to_logical(new_size, scale_factor), scale_factor))
                EXCEPT !.warned = hint_warns(transparent, region_ok)]
    /\ UNCHANGED <<frame_callback_state, in_flight, entered, reset_in_flight,
                   scale_factor, transparent, viewport>>
    /\ UNCHANGED gvars
    /\ request_redraw(t)
    /\ tcall' = [tcall EXCEPT ![t] = "request_surface_size"]
    /\ ores' = OpsResult("request_surface_size", t, TRUE)

\* Mutant of Subsurface_set_cursor_position: the redraw is requested whether
\* the state's set_cursor_position succeeded or not.
Subsurface_set_cursor_position_always(t, pos) ==
    /\ UNCHANGED OpsOthers
    /\ UNCHANGED svars
    /\ tpc[t] = "idle"
    /\ reqsSince < MaxReq
    /\ IF ~pointer_constraints \/ current_grab_mode # "Locked"
       THEN /\ calls' = <<>>
            /\ gres' = GrabResult("set_cursor_position", "None", {pos},
                                  "NotSupported")
            /\ UNCHANGED pdata
            /\ ores' = OpsResult("set_cursor_position", t, FALSE)
       ELSE LET cs == apply_on_pointer("set_locked_cursor_position", {pos}) IN
            /\ calls' = cs
            /\ pdata' = RunCalls(pdata, cs)
            /\ gres' = GrabResult("set_cursor_position", "None", {pos}, "Ok")
            /\ ores' = OpsResult("set_cursor_position", t, TRUE)
    /\ request_redraw(t)
    /\ UNCHANGED <<pointer_constraints, user_grab_mode, current_grab_mode,
                   pointers, live>>
    /\ tcall' = [tcall EXCEPT ![t] = "set_cursor_position"]

\* Subsurface::set_cursor_position on thread t: the state's
\* set_cursor_position under the lock, and .map(|_| self.request_redraw())
\* on its result.
Subsurface_set_cursor_position(t, pos) ==
    /\ UNCHANGED OpsOthers
    /\ UNCHANGED svars
    /\ tpc[t] = "idle"
    /\ reqsSince < MaxReq
    /\ IF ~pointer_constraints \/ current_grab_mode # "Locked"
       THEN \* Err(NotSupportedError): map does not run the closure
            /\ calls' = <<>>
            /\ gres' = GrabResult("set_cursor_position", "None", {pos},
                                  "NotSupported")
            /\ UNCHANGED pdata
            /\ UNCHANGED rvars
            /\ ores' = OpsResult("set_cursor_position", t, FALSE)
       ELSE LET cs == apply_on_pointer("set_locked_cursor_position", {pos}) IN
            /\ calls' = cs
            /\ pdata' = RunCalls(pdata, cs)
            /\ gres' = GrabResult("set_cursor_position", "None", {pos}, "Ok")
            /\ request_redraw(t)
            /\ ores' = OpsResult("set_cursor_position", t, TRUE)
    /\ UNCHANGED <<pointer_constraints, user_grab_mode, current_grab_mode,
                   pointers, live>>
    /\ tcall' = [tcall EXCEPT ![t] = "set_cursor_position"]

ONext ==
    \/ \E t \in OpsThreads, new_size \in OpsSizes, region_ok \in BOOLEAN :
          Subsurface_request_surface_size(t, new_size, region_ok)
    \/ \E t \in OpsThreads, pos \in Positions :
          Subsurface_set_cursor_position(t, pos)
    \/ \E t \in OpsThreads : RequestRedrawPing(t)
    \/ \E mode \in Modes : set_cursor_grab(mode)
    \/ LoopWake
    \/ LoopWakeOther
    \/ LoopDeliver
    \/ LoopAboutToWait

OpsInit ==
    HInit /\ RInit /\ GInit /\ SInit /\ CIdle /\ BIdle /\ LIdle /\ OInit /\ PIdle

OpsSpec == OpsInit /\ [][ONext]_vars

\* ---- Claims about the redraw requested by the handle's methods ----

\* A step is a call of the method m of the handle.
OpsCalled(m) == ores'.seq # ores.seq /\ ores'.op = m

\* In this step the method m returns on thread t: at the compare_exchange
\* when the flag was already true (or when no redraw is requested), else at
\* the ping.
OpsReturns(t, m) ==
    \/ OpsCalled(m) /\ ores'.t = t /\ tpc'[t] = "idle"
    \/ tcall[t] = m /\ tpc[t] = "ping" /\ tpc'[t] = "idle"

\* The redraw was requested in this step by thread t: the flag is true
\* afterwards, and the ping is the thread's next step exactly when the step
\* has set the flag.
OpsRequested(t) ==
    /\ redraw_requested'
    /\ reqsSince' = reqsSince + 1
    /\ pinged' = pinged
    /\ IF redraw_requested
       THEN tpc' = tpc
       ELSE tpc' = [tpc EXCEPT ![t] = "ping"]

\* C27 as stated: request_surface_size leaves the redraw flag true when it
\* returns; set_cursor_position requests a redraw exactly when it succeeds
\* and on failure leaves the flag unchanged and pings nothing.
C27_FlagTrueOnReturn ==
    [][/\ \A t \in Threads :
            OpsReturns(t, "request_surface_size") => redraw_requested'
       /\ OpsCalled("set_cursor_position") =>
            IF ores'.ok
            THEN OpsRequested(ores'.t)
            ELSE UNCHANGED <<redraw_requested, pinged, tpc>>]_vars

\* C27, amended: request_surface_size always makes the redraw request (the
\* flag is true right after its compare-exchange, and the call pings exactly
\* when that exchange has set the flag, the ping making the wake-up
\* pending); the loop may deliver and clear the flag before the call
\* returns. set_cursor_position succeeds exactly when the constraints
\* extension is present and the current grab mode is Locked; it makes the
\* same request exactly when it succeeds, and on failure leaves the flag
\* unchanged and pings nothing.
C27_RedrawRequestedByOperation ==
    [][/\ OpsCalled("request_surface_size") => OpsRequested(ores'.t)
       /\ OpsCalled("set_cursor_position") =>
            /\ ores'.ok = (pointer_constraints /\ current_grab_mode = "Locked")
            /\ ores'.ok = (gres'.res = "Ok")
            /\ IF ores'.ok
               THEN OpsRequested(ores'.t)
               ELSE UNCHANGED <<redraw_requested, pinged, tpc, reqsSince>>
       /\ \A t \in Threads :
            (tpc[t] = "ping" /\ tpc'[t] = "idle") => pinged']_vars

\* A successful set_cursor_position under a Locked grab has set the flag,
\* which the loop had cleared before, and is about to ping.
C27_Witness ==
    /\ ores.op = "set_cursor_position"
    /\ ores.ok
    /\ current_grab_mode = "Locked"
    /\ redraw_requested
    /\ ~pinged
    /\ tpc[ores.t] = "ping"


\* ---- Claims about the borrow of the EventHandler slot ----

\* C25: the abort branch of the teardown is unreachable. Whenever a set
\* scope is the innermost active call, which is when its clear-on-scope-exit
\* step runs, the slot is not borrowed; every borrow belongs to a call
\* (a handle callback, a handler destructor) that is nested inside the
\* innermost set scope and is gone before that scope is torn down; and no
\* behaviour, with panics out of callbacks, closures and destructors, takes
\* the abort branch.
C25_TeardownNeverAborts ==
    /\ (stack # <<>> /\ Top.kind = "set") => ~borrowed
    /\ \A i \in DOMAIN stack, j \in DOMAIN stack :
          (i < j /\ stack[j].kind = "set") => stack[i].kind = "set"
    /\ last.res # "abort"
    /\ aborted => last.op = "double_panic"

\* A panic has unwound to a set scope whose handler was still installed:
\* the teardown found the slot free and is dropping the handler.
C25_Witness ==
    /\ stack # <<>>
    /\ Top.kind = "drop"
    /\ Top.from = "set_unwind"
    /\ last.op = "clear_on_drop"
    /\ inner = None
    /\ ~aborted

\* C26 as stated: in_use() is true exactly while a handle callback is
\* executing, ready() exactly when a handler is installed and no callback is
\* executing, and they are never both true.
C26_InUseIffCallback ==
    /\ in_use <=> NumCallbacks >= 1
    /\ ready <=> (inner # None /\ NumCallbacks = 0)
    /\ ~(in_use /\ ready)

\* C26, amended: in_use() is true exactly while the slot is mutably
\* borrowed, that is while a handle callback is executing or while terminate
\* or the scope exit of set is dropping the handler it has taken out of the
\* slot; at most one of these is in progress. ready() is true exactly when
\* a handler is installed and no callback is executing. in_use() and
\* ready() are never both true.
C26_InUseIffBorrowHeld ==
    /\ in_use <=> (NumCallbacks + NumDrops >= 1)
    /\ NumCallbacks + NumDrops <= 1
    /\ NumDrops >= 1 => inner = None
    /\ ready <=> (inner # None /\ NumCallbacks = 0)
    /\ ~(in_use /\ ready)

\* terminate is dropping the handler: the slot is in use although no
\* callback is executing.
C26_Witness ==
    /\ stack # <<>>
    /\ Top.kind = "drop"
    /\ Top.from = "terminate"
    /\ in_use
    /\ ~ready
    /\ NumCallbacks = 0


\* ------------------------------------------------------------------------
\* Position of a subsurface (wayland/window/subsurface/state.rs, mod.rs)
\* ------------------------------------------------------------------------

PositionOthers == <<hvars, rvars, gvars, svars, cvars, bvars, lvars, ovars>>

\* Position::to_physical(scale_factor) as PhysicalPosition<i32>, for
\* non-negative coordinates.
Position_to_physical(p, scale) ==
    IF p.kind = "Physical"
    THEN LogicalPosition(p.x, p.y)
    ELSE LogicalPosition(RoundDiv(p.x * scale, 2), RoundDiv(p.y * scale, 2))

\* logical_to_physical_rounded_pos(position, scale_factor).
logical_to_physical_rounded_pos(pos, scale) ==
    LogicalPosition(RoundDiv(pos.x * scale, 2), RoundDiv(pos.y * scale, 2))

\* Subsurface::set_position, that is SubsurfaceState::set_position under
\* the lock: it takes &self, sends the converted position with
\* wl_subsurface.set_position and assigns no field.
Subsurface_set_position(p) ==
    /\ UNCHANGED PositionOthers
    /\ subsurface_position' = {Position_to_physical(p, scale_factor)}
    /\ pres' = PositionResult("set_position", {p}, scale_factor, {})
    /\ UNCHANGED position

\* Subsurface::position: the stored position in device pixels.
Subsurface_position ==
    /\ UNCHANGED PositionOthers
    /\ pres' = [pres EXCEPT
                  !.op = "position",
                  !.ret = {logical_to_physical_rounded_pos(position,
                                                           scale_factor)}]
    /\ UNCHANGED <<position, subsurface_position>>

PNext ==
    \/ \E p \in Positions2D : Subsurface_set_position(p)
    \/ Subsurface_position
    \/ \E scale \in Scales : set_scale_factor(scale)

PositionInit ==
    HInit /\ RIdle /\ GIdle /\ SIdle /\ CIdle /\ BIdle /\ LIdle /\ OIdle /\ PInit

PositionSpec == PositionInit /\ [][PNext]_vars

\* ---- Claims about the position ----

\* C31: the stored relative position always reflects the last position
\* set: once set_position(p) was called, the stored position is p as a
\* logical position, and position() returns it converted to device pixels
\* at the current scale factor.
C31_PositionRoundTrip ==
    /\ [](\A p \in pres.arg : position = Position_to_logical(p, pres.scale))
    /\ [][(pres'.op = "position") =>
            \A p \in pres'.arg :
               pres'.ret = {logical_to_physical_rounded_pos(
                               Position_to_logical(p, pres'.scale),
                               scale_factor')}]_vars


\* ---- Claims about terminate ----

\* A step is a call of terminate.
TerminateCalled == last'.op = "terminate"

\* C32: terminate never removes a handler that is borrowed. Called while
\* the slot is borrowed it panics and the slot is as before, the handler
\* of an executing callback staying installed; called while a handler is
\* installed and idle it takes the handler out, and the slot is absent when
\* terminate is left; called while the slot is absent it only logs and
\* changes nothing. With the slot absent, handle is a logged no-op and the
\* exit of the enclosing set scope finds nothing to clear: it neither
\* panics nor aborts.
C32_TerminateRespectsBorrow ==
    /\ [][TerminateCalled =>
            IF borrowed
            THEN /\ last'.res = "panic"
                 /\ unwinding'
                 /\ UNCHANGED <<inner, borrowed, stack, aborted>>
                 /\ NumCallbacks >= 1 => inner' # None
            ELSE IF inner = None
            THEN /\ last'.res = "logged"
                 /\ UNCHANGED <<inner, borrowed, stack, unwinding, aborted>>
            ELSE /\ last'.res = "cleared"
                 /\ last'.h = inner
                 /\ inner' = None
                 /\ ~unwinding'
                 /\ ~aborted']_vars
    /\ [][last'.op \in {"terminate_return", "terminate_unwind"} =>
            (inner' = None /\ ~borrowed')]_vars
    /\ [][(last'.op = "handle" /\ inner = None /\ ~borrowed) =>
            (last'.res = "logged" /\ UNCHANGED <<inner, borrowed, stack>>)]_vars
    /\ [][(/\ last'.op \in {"set_return", "set_unwind"}
           /\ stack # <<>>
           /\ Top.kind = "set"
           /\ inner = None) =>
            /\ last'.res = "cleared"
            /\ stack' = Pop
            /\ unwinding' = unwinding
            /\ ~aborted'
            /\ inner' = None
            /\ ~borrowed']_vars

\* terminate was called inside a handle callback: it has panicked and the
\* handler is still installed and borrowed.
C32_Witness ==
    /\ last.op = "terminate"
    /\ last.res = "panic"
    /\ NumCallbacks = 1
    /\ inner # None
    /\ borrowed
    /\ unwinding

====
